---- MODULE Spec2Model ----
(***************************************************************************)
(* Verification model of the NLP Query Engine backend.                     *)
(*                                                                         *)
(*   QueryCache   backend/api/services/cache_service.py                    *)
(*   QueryEngine  backend/api/services/query_engine.py                     *)
(*   SchemaDiscovery.map_natural_language_to_schema                        *)
(*                backend/api/services/schema_discovery.py                 *)
(*                                                                         *)
(* Text is modelled by TLA+ strings; substring containment, lower() and    *)
(* upper() are computed character by character, as Python computes them.   *)
(***************************************************************************)
EXTENDS Integers, Sequences, FiniteSets, TLC

(***************************************************************************)
(* Bounds of the model.                                                    *)
(***************************************************************************)
NumKeys == 3
NumValues == 1
MaxCapacity == 2
MaxTime == 2
MaxGets == 2
MaxWords == 2
MaxSim == 2
MaxJobs == 1
MaxFiles == 2
MaxDocs == 2
MaxClock == 1
MaxTopK == 2
MaxConnects == 2
MaxRequests == 2
MaxParts == 3
MaxAdds == 102
MaxHandled == 3
MaxElapses == 2

(***************************************************************************)
(* Python's None, as it appears in results.                                *)
(***************************************************************************)
None == "None"

VARIABLES
    \* ---- QueryCache (cache_service.py) ----
    max_size,       \* self.max_size
    cache,          \* self.cache: the OrderedDict, as the sequence of its items, oldest first
    hits,           \* self.hits
    misses,         \* self.misses
    now,            \* the value time.time() returns
    ret,            \* the last cache call and what it returned
    lastUse         \* history: the keys in the cache, by time of last use, oldest first

cacheVars == <<max_size, cache, hits, misses, now, ret, lastUse>>

VARIABLES
    \* ---- inputs and results of the pure text functions of QueryEngine ----
    query,          \* the query text
    classification, \* what _classify_query(query) returned
    validation      \* what validate_query(query) returned

textVars == <<query, classification, validation>>

VARIABLES
    \* ---- QueryEngine (query_engine.py) ----
    schema,           \* self.schema
    document_store,   \* self.document_processor.document_store, as the sequence of its values
    embeddings_cache, \* self.document_processor.embeddings_cache, as the set of its keys
    result,           \* what the last process_query returned
    calls,            \* the last call made on the engine and the calls it made, in order
    env               \* what the store and the embedding model did during the last call

engineVars == <<schema, document_store, embeddings_cache, result, calls, env>>

VARIABLES
    \* ---- the upload handler and its background tasks (main.py), and the
    \* ---- calls made on the DocumentProcessor ----
    ingestion_jobs, \* app_state.ingestion_jobs, as the sequence of its values
    tasks,          \* the background task of each job: its position and its locals
    search_hits,    \* what the last search_documents returned
    batch           \* the last process_documents call and what it returned

docsVars == <<ingestion_jobs, tasks, search_hits, batch>>

VARIABLES
    \* ---- the connect and query handlers of main.py ----
    app_state,      \* app_state: query_engine, connected_database, schema_info
    engines,        \* the QueryEngine objects made so far; an engine is named by its position
    connects,       \* the connect_database request: its position and its locals
    requests        \* the process_query requests: the engine each runs on, its
                    \* position, and what it has read of self.schema

appVars == <<app_state, engines, connects, requests>>

VARIABLES
    \* ---- SchemaDiscovery.analyze_database (schema_discovery.py) ----
    database,       \* the database connected to: what its inspector and its
                    \* count queries answer, table by table
    discovered      \* what analyze_database returned

discoveryVars == <<database, discovered>>

VARIABLES
    \* ---- DocumentProcessor.dynamic_chunking (document_processor.py) ----
    content,        \* the text extracted from a document
    chunked         \* what dynamic_chunking returned for it

chunkVars == <<content, chunked>>

VARIABLES
    \* ---- QueryCache: statistics and query history (cache_service.py) ----
    gets,           \* history: the calls of get since the last clear (or since
                    \* creation), and how many of them returned a value
    stats,          \* what get_stats returned
    recent_queries, \* self.recent_queries
    added           \* history: the number of calls of add_query_to_history

statVars == <<gets, stats>>

historyVars == <<recent_queries, added>>

VARIABLES
    \* ---- QueryEngine: SQL synthesis and optimisation (query_engine.py) ----
    generation,     \* the last call of _generate_sql_query and what it returned
    optimization    \* the last call of optimize_sql_query and what it returned

sqlVars == <<generation, optimization>>

VARIABLES
    \* ---- the process_query handler of main.py ----
    response,       \* what the last request of the handler was answered with
    answered        \* history: for each text, the last result process_query
                    \* returned for it, the time it did and the engine that did

handlerVars == <<response, answered>>

vars == <<max_size, cache, hits, misses, now, ret, lastUse,
          query, classification, validation,
          schema, document_store, embeddings_cache, result, calls, env,
          ingestion_jobs, tasks, search_hits, batch,
          app_state, engines, connects, requests,
          database, discovered,
          content, chunked,
          gets, stats, recent_queries, added,
          generation, optimization, response, answered>>

(***************************************************************************)
(* Python text operations                                                  *)
(***************************************************************************)
UpperChars == "ABCDEFGHIJKLMNOPQRSTUVWXYZ"
LowerChars == "abcdefghijklmnopqrstuvwxyz"
DigitChars == "0123456789"
\* the characters \s matches
WhitespaceChars == " \t\n\r\f"

CharAt(s, i) == SubSeq(s, i, i)

CharIn(c, chars) == \E i \in 1..Len(chars) : CharAt(chars, i) = c

PosIn(c, chars) == CHOOSE i \in 1..Len(chars) : CharAt(chars, i) = c

LowerChar(c) == IF CharIn(c, UpperChars) THEN CharAt(LowerChars, PosIn(c, UpperChars)) ELSE c

UpperChar(c) == IF CharIn(c, LowerChars) THEN CharAt(UpperChars, PosIn(c, LowerChars)) ELSE c

RECURSIVE lower(_)
\* str.lower(), character by character (the text is halved at each step)
lower(s) ==
    IF Len(s) <= 1 THEN LowerChar(s)
    ELSE lower(SubSeq(s, 1, Len(s) \div 2)) \o lower(SubSeq(s, Len(s) \div 2 + 1, Len(s)))

RECURSIVE upper(_)
\* str.upper()
upper(s) == IF s = "" THEN "" ELSE UpperChar(CharAt(s, 1)) \o upper(SubSeq(s, 2, Len(s)))

\* sub in s
Contains(sub, s) == \E i \in 1..(Len(s) - Len(sub) + 1) : SubSeq(s, i, i + Len(sub) - 1) = sub

\* s.startswith(prefix)
startswith(s, prefix) == Len(prefix) <= Len(s) /\ SubSeq(s, 1, Len(prefix)) = prefix

\* any(w in s for w in words), words a sequence of strings
ContainsAny(words, s) == \E i \in DOMAIN words : Contains(words[i], s)

\* ---- the regular expressions the code uses ----
\* a pattern is a sequence of items: a literal, or a character class repeated
\* at least min times (max = 0: no upper limit); chars = "" is the dot
Lit(s) == [kind |-> "lit", s |-> s, min |-> 0, max |-> 0]
Cls(chars, min, max) == [kind |-> "cls", s |-> chars, min |-> min, max |-> max]

ClsMatches(item, c) == IF item.s = "" THEN c # "\n" ELSE CharIn(c, item.s)

RECURSIVE MatchFrom(_, _, _, _)
\* the items j.. of pat match a prefix of s[i..]
MatchFrom(pat, j, s, i) ==
    IF j > Len(pat) THEN TRUE
    ELSE IF pat[j].kind = "lit"
    THEN /\ i + Len(pat[j].s) - 1 <= Len(s)
         /\ SubSeq(s, i, i + Len(pat[j].s) - 1) = pat[j].s
         /\ MatchFrom(pat, j + 1, s, i + Len(pat[j].s))
    ELSE \E n \in pat[j].min..(Len(s) - i + 1) :
            /\ (pat[j].max = 0 \/ n <= pat[j].max)
            /\ \A m \in i..(i + n - 1) : ClsMatches(pat[j], CharAt(s, m))
            /\ MatchFrom(pat, j + 1, s, i + n)

\* re.search(pat, s) is not None
re_search(pat, s) == \E i \in 1..(Len(s) + 1) : MatchFrom(pat, 1, s, i)


(***************************************************************************)
(* QueryEngine._classify_query                                             *)
(***************************************************************************)
sql_indicators ==
    <<"count", "average", "sum", "total", "max", "min",
      "salary", "department", "employee", "staff",
      "hired", "join date", "position", "role">>

document_indicators ==
    <<"resume", "cv", "skills", "experience",
      "python", "java", "programming", "developer",
      "review", "performance", "contract", "document">>

hybrid_indicators ==
    <<"with skills", "developers in", "engineers who",
      "employees with experience", "staff members with">>

\* sum(1 for indicator in indicators if indicator in query_lower)
Score(indicators, query_lower) ==
    Cardinality({i \in DOMAIN indicators : Contains(indicators[i], query_lower)})

Min(a, b) == IF a <= b THEN a ELSE b

\* the decision of _classify_query, with the confidence in tenths
QueryTypeSqlFirst(sql_score, doc_score, hybrid_score) ==
    IF sql_score > doc_score
    THEN [type |-> "sql", confidence |-> Min(9, sql_score * 2)]
    ELSE IF hybrid_score > 0 \/ (sql_score > 0 /\ doc_score > 0)
    THEN [type |-> "hybrid",
          confidence |-> Min(9, (sql_score + doc_score + hybrid_score) * 2)]
    ELSE IF doc_score > 0
    THEN [type |-> "document", confidence |-> Min(9, doc_score * 2)]
    ELSE [type |-> "general", confidence |-> 5]

QueryType(sql_score, doc_score, hybrid_score) ==
    IF hybrid_score > 0 \/ (sql_score > 0 /\ doc_score > 0)
    THEN [type |-> "hybrid",
          confidence |-> Min(9, (sql_score + doc_score + hybrid_score) * 2)]
    ELSE IF sql_score > doc_score
    THEN [type |-> "sql", confidence |-> Min(9, sql_score * 2)]
    ELSE IF doc_score > 0
    THEN [type |-> "document", confidence |-> Min(9, doc_score * 2)]
    ELSE [type |-> "general", confidence |-> 5]

_classify_query(q) ==
    LET query_lower == lower(q)
        sql_score == Score(sql_indicators, query_lower)
        doc_score == Score(document_indicators, query_lower)
        hybrid_score == Score(hybrid_indicators, query_lower)
        decision == QueryType(sql_score, doc_score, hybrid_score)
    IN  [type |-> decision.type,
         confidence |-> decision.confidence,
         sql_score |-> sql_score,
         document_score |-> doc_score,
         hybrid_score |-> hybrid_score]

(***************************************************************************)
(* QueryEngine.validate_query                                              *)
(***************************************************************************)
dangerous_keywords == <<"DROP", "DELETE", "UPDATE", "INSERT", "ALTER", "CREATE">>

injection_patterns ==
    << <<Cls("';", 1, 1), Lit("--")>>,
       <<Lit("UNION"), Cls(WhitespaceChars, 1, 0), Lit("SELECT")>>,
       <<Lit("OR"), Cls(WhitespaceChars, 1, 0), Lit("1"), Cls(WhitespaceChars, 0, 0),
         Lit("="), Cls(WhitespaceChars, 0, 0), Lit("1")>>,
       <<Lit("AND"), Cls(WhitespaceChars, 1, 0), Lit("1"), Cls(WhitespaceChars, 0, 0),
         Lit("="), Cls(WhitespaceChars, 0, 0), Lit("1")>> >>

\* SELECT\s+\*.*LIMIT\s+[5-9]\d{2,}
broad_query_pattern ==
    <<Lit("SELECT"), Cls(WhitespaceChars, 1, 0), Lit("*"), Cls("", 0, 0),
      Lit("LIMIT"), Cls(WhitespaceChars, 1, 0), Cls("56789", 1, 1), Cls(DigitChars, 2, 0)>>

\* query_upper = query.upper()
query_upper_raw(q) == q

query_upper(q) == upper(q)

validate_query(q) ==
    LET qu == query_upper(q)
        found == SelectSeq(dangerous_keywords, LAMBDA keyword : Contains(keyword, qu))
        injection == \E i \in DOMAIN injection_patterns : re_search(injection_patterns[i], qu)
    IN  [is_valid |-> found = <<>> /\ ~injection,
         warnings |->
            (IF Len(q) > 1000
             THEN <<"Query is very long, consider simplifying">> ELSE <<>>)
            \o (IF re_search(broad_query_pattern, qu)
                THEN <<"Large result set requested, consider adding filters">> ELSE <<>>),
         errors |->
            [i \in DOMAIN found |-> "Dangerous operation detected: " \o found[i]]
            \o (IF injection THEN <<"Potential SQL injection detected">> ELSE <<>>)]

(***************************************************************************)
(* The schema model the engine reads (SchemaDiscovery.analyze_database)    *)
(***************************************************************************)
\* dict[key] = value on a dict kept as the sequence of its items
DictSet(d, k, v) ==
    IF \E i \in DOMAIN d : d[i].term = k
    THEN [d EXCEPT ![CHOOSE i \in DOMAIN d : d[i].term = k].table = v]
    ELSE Append(d, [term |-> k, table |-> v])

RECURSIVE DictSetAll(_, _, _)
\* for term in terms: d[term] = v
DictSetAll(d, terms, v) ==
    IF terms = <<>> THEN d ELSE DictSetAll(DictSet(d, Head(terms), v), Tail(terms), v)

employee_terms == <<"employee", "employees", "staff", "worker", "person", "people">>
department_terms == <<"department", "departments", "dept", "division", "team">>

RECURSIVE TableTerms(_, _)
\* mapping["tables"] of _create_semantic_mapping
TableTerms(tables, d) ==
    IF tables = <<>> THEN d
    ELSE TableTerms(Tail(tables),
            IF Head(tables).purpose = "employees"
            THEN DictSetAll(d, employee_terms, Head(tables).name)
            ELSE IF Head(tables).purpose = "departments"
            THEN DictSetAll(d, department_terms, Head(tables).name)
            ELSE d)

_create_semantic_mapping(tables) == [tables |-> TableTerms(tables, <<>>)]

Table(name, columns, purpose, row_count) ==
    [name |-> name, columns |-> columns, purpose |-> purpose, row_count |-> row_count]

SchemaOf(tables) ==
    [tables |-> tables, semantic_mapping |-> _create_semantic_mapping(tables)]

\* the databases the engine is connected to
Schemas ==
    {SchemaOf(<<Table("employees", <<"id", "name", "department", "salary", "hire_date">>,
                      "employees", 3)>>),
     SchemaOf(<<Table("departments", <<"dept_id", "dept_name">>, "departments", 2),
                Table("staff", <<"emp_id", "full_name", "dept_id", "pay_rate", "join_date">>,
                      "employees", 3)>>),
     SchemaOf(<<Table("projects", <<"code", "budget">>, "other", 1),
                Table("documents", <<"doc_id", "title">>, "other", 4)>>),
     SchemaOf(<<>>)}

(***************************************************************************)
(* SchemaDiscovery.map_natural_language_to_schema                          *)
(***************************************************************************)
_classify_query_type(q) ==
    LET query_lower == lower(q)
    IN  IF ContainsAny(<<"count", "average", "sum", "total", "max", "min">>, query_lower)
        THEN "aggregation"
        ELSE IF ContainsAny(<<"list", "show", "find", "get", "who", "which">>, query_lower)
        THEN "search"
        ELSE IF ContainsAny(<<"compare", "vs", "versus", "difference">>, query_lower)
        THEN "comparison"
        ELSE "general"

RECURSIVE InsertByRowCount(_, _)
\* t goes after every table whose row_count is not smaller (the sort is stable)
InsertByRowCount(sorted, t) ==
    IF sorted = <<>> THEN <<t>>
    ELSE IF Head(sorted).row_count >= t.row_count
    THEN <<Head(sorted)>> \o InsertByRowCount(Tail(sorted), t)
    ELSE <<t>> \o sorted

RECURSIVE SortedByRowCount(_)
\* sorted(tables, key = row_count, reverse = True)
SortedByRowCount(tables) ==
    IF tables = <<>> THEN <<>>
    ELSE InsertByRowCount(SortedByRowCount(SubSeq(tables, 1, Len(tables) - 1)),
                          tables[Len(tables)])

Names(tables) == [i \in DOMAIN tables |-> tables[i].name]

FirstN(s, n) == SubSeq(s, 1, Min(n, Len(s)))

_suggest_tables_by_query_type(query_type, sch) ==
    LET employee_tables == SelectSeq(sch.tables, LAMBDA t : t.purpose = "employees")
    IN  IF employee_tables # <<>>
        THEN FirstN(Names(employee_tables), 2)
        ELSE FirstN(Names(SortedByRowCount(sch.tables)), 2)

InSeq(x, s) == \E i \in DOMAIN s : s[i] = x

RECURSIVE MatchingTables(_, _, _)
\* the loop over semantic_mapping["tables"].items()
MatchingTables(items, query_lower, acc) ==
    IF items = <<>> THEN acc
    ELSE MatchingTables(Tail(items), query_lower,
            IF Contains(Head(items).term, query_lower) /\ ~InSeq(Head(items).table, acc)
            THEN Append(acc, Head(items).table)
            ELSE acc)

\* suggested_columns is left out: the engine reads suggested_tables only
map_natural_language_to_schema(q, sch) ==
    LET query_lower == lower(q)
        query_type == _classify_query_type(query_lower)
        matched == MatchingTables(sch.semantic_mapping.tables, query_lower, <<>>)
    IN  [suggested_tables |->
            IF matched = <<>> THEN _suggest_tables_by_query_type(query_type, sch)
            ELSE matched,
         query_type |-> query_type]

(***************************************************************************)
(* QueryEngine: SQL synthesis                                              *)
(***************************************************************************)
\* self.schema.get('tables', {}).get(table, {}).get('columns', {})
ColumnsOf(sch, table) ==
    IF \E i \in DOMAIN sch.tables : sch.tables[i].name = table
    THEN sch.tables[CHOOSE i \in DOMAIN sch.tables : sch.tables[i].name = table].columns
    ELSE <<>>

\* the first column whose lower-cased name contains one of the patterns
_find_column_by_pattern(sch, table, patterns) ==
    LET columns == ColumnsOf(sch, table)
        hit(i) == ContainsAny(patterns, lower(columns[i]))
    IN  IF \E i \in DOMAIN columns : hit(i)
        THEN columns[CHOOSE i \in DOMAIN columns : hit(i) /\ \A j \in 1..(i - 1) : ~hit(j)]
        ELSE None

RECURSIVE Join(_, _)
\* sep.join(parts)
Join(sep, parts) ==
    IF parts = <<>> THEN ""
    ELSE IF Len(parts) = 1 THEN parts[1]
    ELSE parts[1] \o sep \o Join(sep, Tail(parts))

dept_names == <<"engineering", "sales", "marketing", "hr">>

WithWhere(sql, where_conditions) ==
    IF where_conditions # <<>> THEN sql \o " WHERE " \o Join(" AND ", where_conditions) ELSE sql

\* the query argument of the generators is query_lower
_generate_count_query(sch, q, tables) ==
    LET main_table == tables[1]
        dept_column == _find_column_by_pattern(sch, main_table, <<"dept", "division">>)
        date_column == _find_column_by_pattern(sch, main_table,
                                               <<"hire", "join", "start", "created">>)
        dept == dept_names[CHOOSE i \in DOMAIN dept_names :
                    /\ Contains(dept_names[i], q)
                    /\ \A j \in 1..(i - 1) : ~Contains(dept_names[j], q)]
        dept_conditions ==
            IF Contains("department", q) /\ dept_column # None /\ ContainsAny(dept_names, q)
            THEN <<dept_column \o " ILIKE '%" \o dept \o "%'">>
            ELSE <<>>
        date_conditions ==
            IF (Contains("this year", q) \/ Contains("2024", q)) /\ date_column # None
            THEN <<date_column \o " >= '2024-01-01'">>
            ELSE <<>>
    IN  WithWhere("SELECT COUNT(*) as count FROM " \o main_table,
                  dept_conditions \o date_conditions)

_generate_average_query(sch, q, tables) ==
    LET main_table == tables[1]
        salary_column == _find_column_by_pattern(sch, main_table,
                                                 <<"salary", "pay", "compensation">>)
        dept_column == _find_column_by_pattern(sch, main_table, <<"dept", "division">>)
    IN  IF salary_column = None
        THEN "SELECT COUNT(*) as count FROM " \o main_table
        ELSE IF (Contains("department", q) \/ Contains("dept", q)) /\ dept_column # None
        THEN "SELECT " \o dept_column \o ", AVG(" \o salary_column
                \o ") as average_salary FROM " \o main_table \o " GROUP BY " \o dept_column
        ELSE "SELECT AVG(" \o salary_column \o ") as average_salary FROM " \o main_table

_generate_select_query(sch, q, tables) ==
    LET main_table == tables[1]
        columns == ColumnsOf(sch, main_table)
        name_column == _find_column_by_pattern(sch, main_table, <<"name">>)
        salary_col == _find_column_by_pattern(sch, main_table,
                                              <<"salary", "pay", "compensation">>)
        dept_col == _find_column_by_pattern(sch, main_table, <<"dept", "division">>)
        date_column == _find_column_by_pattern(sch, main_table, <<"hire", "join", "start">>)
        found ==
            (IF name_column # None THEN <<name_column>> ELSE <<>>)
            \o (IF Contains("salary", q) /\ salary_col # None THEN <<salary_col>> ELSE <<>>)
            \o (IF Contains("department", q) /\ dept_col # None THEN <<dept_col>> ELSE <<>>)
        select_columns == IF found = <<>> THEN FirstN(columns, 3) ELSE found
        where_conditions ==
            IF Contains("hired this year", q) /\ date_column # None
            THEN <<date_column \o " >= '2024-01-01'">>
            ELSE <<>>
    IN  WithWhere("SELECT " \o Join(", ", select_columns) \o " FROM " \o main_table,
                  where_conditions) \o " LIMIT 50"

RECURSIVE SpanOf(_, _, _)
\* the end of the longest run of characters of chars that starts at s[i]
SpanOf(chars, s, i) ==
    IF i <= Len(s) /\ CharIn(CharAt(s, i), chars) THEN SpanOf(chars, s, i + 1) ELSE i

RECURSIVE ParseInt(_)
\* int(digits)
ParseInt(digits) ==
    IF digits = "" THEN 0
    ELSE 10 * ParseInt(SubSeq(digits, 1, Len(digits) - 1))
         + (PosIn(CharAt(digits, Len(digits)), DigitChars) - 1)

\* top\s+(\d+)
top_pattern == <<Lit("top"), Cls(WhitespaceChars, 1, 0), Cls(DigitChars, 1, 1)>>

\* int(re.search(r'top\s+(\d+)', query).group(1)), or 5 without a match
TopLimit(q) ==
    IF re_search(top_pattern, q)
    THEN LET i == CHOOSE i \in 1..Len(q) :
                    /\ MatchFrom(top_pattern, 1, q, i)
                    /\ \A j \in 1..(i - 1) : ~MatchFrom(top_pattern, 1, q, j)
             d == SpanOf(WhitespaceChars, q, i + 3)
         IN  ParseInt(SubSeq(q, d, SpanOf(DigitChars, q, d) - 1))
    ELSE 5

\* the table has no column to order by: list(...keys())[0] raises IndexError
TopQueryRaises(sch, tables) ==
    /\ _find_column_by_pattern(sch, tables[1], <<"salary", "pay", "compensation">>) = None
    /\ ColumnsOf(sch, tables[1]) = <<>>

_generate_top_query(sch, q, tables) ==
    LET main_table == tables[1]
        name_column == _find_column_by_pattern(sch, main_table, <<"name">>)
        salary_column == _find_column_by_pattern(sch, main_table,
                                                 <<"salary", "pay", "compensation">>)
        found == (IF name_column # None THEN <<name_column>> ELSE <<>>)
                 \o (IF salary_column # None THEN <<salary_column>> ELSE <<>>)
        select_columns == IF found = <<>> THEN <<"*">> ELSE found
        order_column == IF salary_column # None THEN salary_column
                        ELSE ColumnsOf(sch, main_table)[1]
    IN  "SELECT " \o Join(", ", select_columns) \o " FROM " \o main_table
            \o " ORDER BY " \o order_column \o " DESC LIMIT " \o ToString(TopLimit(q))

\* mutant of _generate_sql_query: the cues of the top strategy are tested
\* before those of the select strategy
_generate_sql_query_top_first(sch, q, schema_mapping) ==
    LET query_lower == lower(q)
        tables == schema_mapping.suggested_tables
    IN  IF tables = <<>> THEN None
        ELSE IF ContainsAny(<<"count", "how many">>, query_lower)
        THEN _generate_count_query(sch, query_lower, tables)
        ELSE IF ContainsAny(<<"average", "avg">>, query_lower)
        THEN _generate_average_query(sch, query_lower, tables)
        ELSE IF Contains("highest", query_lower) \/ Contains("top", query_lower)
        THEN _generate_top_query(sch, query_lower, tables)
        ELSE _generate_select_query(sch, query_lower, tables)

\* None when no table was resolved
_generate_sql_query(sch, q, schema_mapping) ==
    LET query_lower == lower(q)
        tables == schema_mapping.suggested_tables
    IN  IF tables = <<>> THEN None
        ELSE IF ContainsAny(<<"count", "how many">>, query_lower)
        THEN _generate_count_query(sch, query_lower, tables)
        ELSE IF ContainsAny(<<"average", "avg">>, query_lower)
        THEN _generate_average_query(sch, query_lower, tables)
        ELSE IF ContainsAny(<<"list", "show", "find">>, query_lower)
        THEN _generate_select_query(sch, query_lower, tables)
        ELSE IF Contains("highest", query_lower) \/ Contains("top", query_lower)
        THEN _generate_top_query(sch, query_lower, tables)
        ELSE _generate_select_query(sch, query_lower, tables)

\* the strategy that raises instead of returning a statement
GenerateRaises(sch, q, schema_mapping) ==
    LET query_lower == lower(q)
        tables == schema_mapping.suggested_tables
    IN  /\ tables # <<>>
        /\ ~ContainsAny(<<"count", "how many">>, query_lower)
        /\ ~ContainsAny(<<"average", "avg">>, query_lower)
        /\ ~ContainsAny(<<"list", "show", "find">>, query_lower)
        /\ Contains("highest", query_lower) \/ Contains("top", query_lower)
        /\ TopQueryRaises(sch, tables)

RECURSIVE lstrip(_)
lstrip(s) == IF s # "" /\ CharIn(CharAt(s, 1), WhitespaceChars)
             THEN lstrip(SubSeq(s, 2, Len(s))) ELSE s

RECURSIVE rstrip(_)
rstrip(s) == IF s # "" /\ CharIn(CharAt(s, Len(s)), WhitespaceChars)
             THEN rstrip(SubSeq(s, 1, Len(s) - 1)) ELSE s

\* str.strip()
strip(s) == rstrip(lstrip(s))

optimize_sql_query(sql) ==
    LET optimized == strip(sql)
    IN  IF /\ startswith(upper(optimized), "SELECT")
           /\ ~Contains("LIMIT", upper(optimized))
           /\ ~ContainsAny(<<"COUNT", "AVG", "SUM", "MAX", "MIN", "GROUP BY">>,
                            upper(optimized))
        THEN optimized \o " LIMIT 100"
        ELSE optimized

\* len(s.split()): the number of positions where a word starts
WordCount(s) ==
    Cardinality({i \in 1..Len(s) :
        /\ ~CharIn(CharAt(s, i), WhitespaceChars)
        /\ (i = 1 \/ CharIn(CharAt(s, i - 1), WhitespaceChars))})

_calculate_query_complexity(q, c) ==
    LET query_lower == lower(q)
        complexity_score ==
            (IF ContainsAny(<<"join", "group by", "having">>, query_lower) THEN 2 ELSE 0)
            + (IF ContainsAny(<<"count", "avg", "sum">>, query_lower) THEN 1 ELSE 0)
            + (IF WordCount(q) > 10 THEN 1 ELSE 0)
            + (IF c.type = "hybrid" THEN 2 ELSE 0)
    IN  IF complexity_score >= 4 THEN "high"
        ELSE IF complexity_score >= 2 THEN "medium"
        ELSE "low"

(***************************************************************************)
(* DocumentProcessor.search_documents on the engine's document processor   *)
(***************************************************************************)
RECURSIVE Flatten(_)
Flatten(ss) == IF ss = <<>> THEN <<>> ELSE Head(ss) \o Flatten(Tail(ss))

\* the chunks of the store that have a vector, in document and chunk order,
\* each with its similarity to the query
Candidates(store, emb, sim) ==
    Flatten([d \in DOMAIN store |->
        LET doc == store[d]
            embedded == SelectSeq(doc.chunks, LAMBDA chunk : chunk.text \in emb)
        IN  [i \in DOMAIN embedded |->
                [doc_id |-> doc.id,
                 filename |-> doc.filename,
                 chunk_text |-> embedded[i].text,
                 chunk_type |-> embedded[i].type,
                 similarity_score |-> sim[embedded[i].text],
                 doc_type |-> doc.type]]])

RECURSIVE InsertBySimilarityUnstable(_, _)
\* mutant of InsertBySimilarity: r goes before the hits of equal similarity
InsertBySimilarityUnstable(sorted, r) ==
    IF sorted = <<>> THEN <<r>>
    ELSE IF Head(sorted).similarity_score > r.similarity_score
    THEN <<Head(sorted)>> \o InsertBySimilarityUnstable(Tail(sorted), r)
    ELSE <<r>> \o sorted

RECURSIVE InsertBySimilarity(_, _)
\* r goes after every hit whose similarity is not smaller (list.sort is stable)
InsertBySimilarity(sorted, r) ==
    IF sorted = <<>> THEN <<r>>
    ELSE IF Head(sorted).similarity_score >= r.similarity_score
    THEN <<Head(sorted)>> \o InsertBySimilarity(Tail(sorted), r)
    ELSE <<r>> \o sorted

RECURSIVE SortedBySimilarity(_)
\* results.sort(key = similarity_score, reverse = True)
SortedBySimilarity(results) ==
    IF results = <<>> THEN <<>>
    ELSE InsertBySimilarity(SortedBySimilarity(SubSeq(results, 1, Len(results) - 1)),
                            results[Len(results)])

\* mutant of EncodesQuery: the query is embedded before the cache is tested
EncodesQueryFirst(emb) == TRUE

\* search_documents calls model.encode on the query only with a non-empty
\* embeddings cache
EncodesQuery(emb) == emb # {}

\* the call of the embedding model is made, and may raise, only with a
\* non-empty embeddings cache
SearchRaises(emb, encode_raises) == EncodesQuery(emb) /\ encode_raises

search_documents(store, emb, sim, top_k) ==
    IF emb = {} THEN <<>>
    ELSE FirstN(SortedBySimilarity(Candidates(store, emb, sim)), top_k)

(***************************************************************************)
(* QueryEngine.process_query                                               *)
(***************************************************************************)
\* the message of the exception the database driver raised
DriverError == "driver: connection refused"
EncodeError == "encoder: out of memory"
IndexError == "list index out of range"

\* the rows a successful execution returns
ExecOutcomes == {"rows", "empty", "raise"}

RowsOf(exec) == IF exec = "rows" THEN <<"row1", "row2">> ELSE <<>>

\* a result dict: keys is the set of its keys; results holds the list (rows
\* or hits) under kind "list", and the two lists of a hybrid result under
\* kind "dict"
ListResults(rows, found) == [kind |-> "list", sql_results |-> rows, document_results |-> found]

DictResults(rows, found) == [kind |-> "dict", sql_results |-> rows, document_results |-> found]

ResultDict(keys, results, query_type, sources, error, sql_query, tables_used, searched) ==
    [keys |-> keys, results |-> results, query_type |-> query_type, sources |-> sources,
     error |-> error, sql_query |-> sql_query, tables_used |-> tables_used,
     total_documents_searched |-> searched, complexity |-> None]

\* what a call did: it raised error, or it returned value; calls is the
\* sequence of the calls it made
Raised(error, cs) == [raised |-> TRUE, error |-> error, calls |-> cs,
                      value |-> ResultDict({}, ListResults(<<>>, <<>>), None, <<>>,
                                           None, None, <<>>, 0)]

Returned(value, cs) == [raised |-> FALSE, error |-> None, calls |-> cs, value |-> value]

\* the part of _process_sql_query before the execution: the mapping of the
\* text to the schema, the synthesis and the optimisation
Synthesize(sch, q) ==
    LET schema_mapping == map_natural_language_to_schema(q, sch)
        raises == GenerateRaises(sch, q, schema_mapping)
        sql_query == IF raises THEN None ELSE _generate_sql_query(sch, q, schema_mapping)
    IN  [raises |-> raises,
         sql_query |-> sql_query,
         optimized_sql |-> IF sql_query = None THEN None ELSE optimize_sql_query(sql_query),
         tables_used |-> schema_mapping.suggested_tables]

\* the part of process_query that the query text and the schema decide
Analyze(sch, q) ==
    [classification |-> _classify_query(q),
     synthesis |-> Synthesize(sch, q),
     complexity |-> _calculate_query_complexity(q, _classify_query(q))]

SynthesisCalls == <<"map_natural_language_to_schema", "_generate_sql_query">>

ExecutionCalls == <<"optimize_sql_query", "_execute_sql_query">>

\* mutant of _process_sql_query: a failed execution is logged and an empty
\* list of rows returned
_process_sql_query_swallowing(synthesis, exec) ==
    IF synthesis.raises
    THEN Raised(IndexError, SynthesisCalls)
    ELSE IF synthesis.sql_query = None
    THEN Returned(ResultDict({"results", "query_type", "sources", "error", "sql_query"},
                             ListResults(<<>>, <<>>), "sql", <<"database">>,
                             "Could not generate SQL query", None, <<>>, 0),
                  SynthesisCalls)
    ELSE Returned(ResultDict({"results", "query_type", "sources", "sql_query",
                              "tables_used"},
                             ListResults(RowsOf(exec), <<>>), "sql", <<"database">>,
                             None, synthesis.optimized_sql, synthesis.tables_used, 0),
                  SynthesisCalls \o ExecutionCalls)

_process_sql_query(synthesis, exec) ==
    IF synthesis.raises
    THEN Raised(IndexError, SynthesisCalls)
    ELSE IF synthesis.sql_query = None
    THEN Returned(ResultDict({"results", "query_type", "sources", "error", "sql_query"},
                             ListResults(<<>>, <<>>), "sql", <<"database">>,
                             "Could not generate SQL query", None, <<>>, 0),
                  SynthesisCalls)
    ELSE IF exec = "raise"
    THEN Raised(DriverError, SynthesisCalls \o ExecutionCalls)
    ELSE Returned(ResultDict({"results", "query_type", "sources", "sql_query",
                              "tables_used"},
                             ListResults(RowsOf(exec), <<>>), "sql", <<"database">>,
                             None, synthesis.optimized_sql, synthesis.tables_used, 0),
                  SynthesisCalls \o ExecutionCalls)

_process_document_query(store, emb, sim, encode_raises) ==
    IF SearchRaises(emb, encode_raises)
    THEN Raised(EncodeError, <<"search_documents">>)
    ELSE Returned(ResultDict({"results", "query_type", "sources", "total_documents_searched"},
                             ListResults(<<>>, search_documents(store, emb, sim, 5)),
                             "document", <<"documents">>, None, None, <<>>, Len(store)),
                  <<"search_documents">>)

_process_hybrid_query(synthesis, store, emb, exec, sim, encode_raises) ==
    LET sql_results == _process_sql_query(synthesis, exec)
        doc_results == _process_document_query(store, emb, sim, encode_raises)
    IN  IF sql_results.raised THEN sql_results
        ELSE IF doc_results.raised
        THEN Raised(doc_results.error, sql_results.calls \o doc_results.calls)
        ELSE Returned(ResultDict({"results", "query_type", "sources", "sql_query"},
                                 DictResults(sql_results.value.results.sql_results,
                                             doc_results.value.results.document_results),
                                 "hybrid", <<"database", "documents">>, None,
                                 sql_results.value.sql_query, <<>>, 0),
                      sql_results.calls \o doc_results.calls)

\* mutant of _process_general_query: the SQL attempt is not guarded, its
\* exception leaves the function
_process_general_query_unguarded(synthesis, store, emb, exec, sim, encode_raises) ==
    LET sql_results == _process_sql_query(synthesis, exec)
        doc_results == _process_document_query(store, emb, sim, encode_raises)
    IN  IF sql_results.raised THEN sql_results
        ELSE IF sql_results.value.results.sql_results # <<>>
        THEN sql_results
        ELSE IF ~doc_results.raised
        THEN Returned(doc_results.value, sql_results.calls \o doc_results.calls)
        ELSE Returned(ResultDict({"results", "query_type", "sources", "error"},
                                 ListResults(<<>>, <<>>), "general", <<>>,
                                 "Unable to process query with available methods",
                                 None, <<>>, 0),
                      sql_results.calls \o doc_results.calls)

_process_general_query(synthesis, store, emb, exec, sim, encode_raises) ==
    LET sql_results == _process_sql_query(synthesis, exec)
        doc_results == _process_document_query(store, emb, sim, encode_raises)
    IN  IF ~sql_results.raised /\ sql_results.value.results.sql_results # <<>>
        THEN sql_results
        ELSE IF ~doc_results.raised
        THEN Returned(doc_results.value, sql_results.calls \o doc_results.calls)
        ELSE Returned(ResultDict({"results", "query_type", "sources", "error"},
                                 ListResults(<<>>, <<>>), "general", <<>>,
                                 "Unable to process query with available methods",
                                 None, <<>>, 0),
                      sql_results.calls \o doc_results.calls)

\* the dispatch of process_query on the classification
Dispatch(a, store, emb, exec, sim, encode_raises) ==
    IF a.classification.type = "sql" THEN _process_sql_query(a.synthesis, exec)
    ELSE IF a.classification.type = "document"
    THEN _process_document_query(store, emb, sim, encode_raises)
    ELSE IF a.classification.type = "hybrid"
    THEN _process_hybrid_query(a.synthesis, store, emb, exec, sim, encode_raises)
    ELSE _process_general_query(a.synthesis, store, emb, exec, sim, encode_raises)

\* a is Analyze(self.schema, user_query); processing_time, a measured
\* duration, is left out of the result
process_query(a, store, emb, exec, sim, encode_raises) ==
    LET run == Dispatch(a, store, emb, exec, sim, encode_raises)
    IN  IF run.raised
        THEN Returned(ResultDict({"results", "query_type", "sources", "error",
                                  "processing_time"},
                                 ListResults(<<>>, <<>>), "error", <<>>, run.error,
                                 None, <<>>, 0),
                      <<"process_query", "_classify_query">> \o run.calls)
        ELSE Returned([run.value EXCEPT
                          !.keys = @ \cup {"complexity", "processing_time"},
                          !.complexity = a.complexity],
                      <<"process_query", "_classify_query">> \o run.calls
                          \o <<"_calculate_query_complexity">>)

NoEnv == [exec |-> None, encode_raises |-> FALSE]

NoResult == ResultDict({}, ListResults(<<>>, <<>>), None, <<>>, None, None, <<>>, 0)

EngineIdle ==
    /\ schema = [tables |-> <<>>, semantic_mapping |-> [tables |-> <<>>]]
    /\ document_store = <<>>
    /\ embeddings_cache = {}
    /\ result = NoResult
    /\ calls = <<>>
    /\ env = NoEnv

\* the results of process_documents and search_documents before any call
NoBatchCall == [file_paths |-> <<>>, failing |-> {}, processed |-> 0, failed |-> 0,
                total_chunks |-> 0, errors |-> <<>>, texts_to_embed |-> <<>>,
                raised |-> FALSE]

NoSearch == [top_k |-> 0, sim |-> <<>>, encode_raises |-> FALSE, encode_called |-> FALSE,
             raised |-> FALSE, found |-> <<>>]

\* no upload, and no call made on the document processor
DocsIdle ==
    /\ ingestion_jobs = <<>>
    /\ tasks = <<>>
    /\ search_hits = NoSearch
    /\ batch = NoBatchCall

NoSchema == [tables |-> <<>>, semantic_mapping |-> [tables |-> <<>>]]

NoConnect == [pc |-> "idle", engine |-> 0, schema_info |-> NoSchema]

\* AppState(): no engine, no connect or query request
AppIdle ==
    /\ app_state = [query_engine |-> 0, connected_database |-> FALSE,
                    schema_info |-> NoSchema]
    /\ engines = <<>>
    /\ connects = NoConnect
    /\ requests = <<>>

NoDiscovery == [done |-> FALSE, raised |-> FALSE, tables |-> <<>>, relationships |-> <<>>,
                semantic_mapping |-> [tables |-> <<>>]]

\* no database analysed
DiscoveryIdle ==
    /\ database = <<>>
    /\ discovered = NoDiscovery

NoGets == [calls |-> 0, live |-> 0]

Ratio(num, den) == [num |-> num, den |-> den]

NoStats == [size |-> 0, max_size |-> 0, hits |-> 0, misses |-> 0,
            hit_rate |-> Ratio(0, 0), utilization |-> Ratio(0, 0)]

\* no get counted, get_stats not called
StatsIdle ==
    /\ gets = NoGets
    /\ stats = NoStats

\* no query in the history
HistoryIdle ==
    /\ recent_queries = <<>>
    /\ added = 0

NoGenerated == [called |-> FALSE, query |-> "", suggested_tables |-> <<>>,
                raised |-> FALSE, sql_query |-> None]

NoOptimized == [called |-> FALSE, again |-> FALSE, sql |-> "", optimized |-> ""]

\* the handler has answered no request
NoResponse == [status |-> 0, query |-> "", cache_hit |-> FALSE, engine |-> 0,
               results |-> [kind |-> "list", sql_results |-> <<>>, document_results |-> <<>>],
               query_type |-> None, sources |-> <<>>, sql_query |-> None,
               total_documents_searched |-> 0, calls |-> <<>>]

HandlerIdle ==
    /\ response = NoResponse
    /\ answered = {}

\* no statement was synthesised or optimised
SqlIdle ==
    /\ generation = NoGenerated
    /\ optimization = NoOptimized

NoChunking == [done |-> FALSE, doc_type |-> "", chunks |-> <<>>]

\* no document being chunked
ChunkIdle ==
    /\ content = ""
    /\ chunked = NoChunking

(***************************************************************************)
(* The text functions applied to a bounded set of query texts              *)
(***************************************************************************)
\* the example queries of the documentation and of get_query_suggestions
ExampleQueries ==
    {"Show me resumes with Python skills",
     "How many employees do we have?",
     "Developers with 5 years of experience in the Engineering department",
     "SELECT * FROM employees; DROP TABLE employees",
     "count employees in engineering",
     "x' OR 1 = 1",
     "SELECT * FROM t LIMIT 5000"}

Vocabulary ==
    {"count", "total salary", "skills", "python", "engineers who", "hello", "Drop", "dELETE"}

RECURSIVE JoinWords(_)
JoinWords(ws) == IF Len(ws) = 1 THEN ws[1] ELSE ws[1] \o " " \o JoinWords(Tail(ws))

GeneratedQueries ==
    {JoinWords(ws) : ws \in UNION {[1..n -> Vocabulary] : n \in 1..MaxWords}}

TextQueries == ExampleQueries \cup GeneratedQueries

NoClassification ==
    [type |-> None, confidence |-> 0, sql_score |-> 0, document_score |-> 0, hybrid_score |-> 0]

NoValidation == [is_valid |-> TRUE, warnings |-> <<>>, errors |-> <<"not run">>]

TextIdle ==
    /\ query = ""
    /\ classification = NoClassification
    /\ validation = NoValidation

\* the cache as QueryCache() leaves it
CacheIdle ==
    /\ max_size = 1
    /\ cache = <<>>
    /\ hits = 0
    /\ misses = 0
    /\ now = 0
    /\ ret = [op |-> "init", key |-> 0, value |-> None,
              entry |-> [key |-> 0, value |-> None, expires_at |-> 0, created_at |-> 0]]
    /\ lastUse = <<>>

InitText ==
    /\ query \in TextQueries
    /\ classification = NoClassification
    /\ validation = NoValidation
    /\ CacheIdle
    /\ EngineIdle
    /\ DocsIdle
    /\ AppIdle
    /\ DiscoveryIdle
    /\ ChunkIdle
    /\ StatsIdle
    /\ HistoryIdle
    /\ SqlIdle
    /\ HandlerIdle

Classify ==
    /\ classification' = _classify_query(query)
    /\ UNCHANGED <<query, validation>>

Validate ==
    /\ validation' = validate_query(query)
    /\ UNCHANGED <<query, classification>>

NextText ==
    /\ \/ Classify
       \/ Validate
    /\ UNCHANGED <<cacheVars, engineVars, docsVars, appVars, discoveryVars, chunkVars, statVars, historyVars, sqlVars, handlerVars>>

SpecText == InitText /\ [][NextText]_vars

Classified == classification # NoClassification

\* C4: classify("Show me resumes with Python skills") returns type document.
C4_ResumeQueryIsDocument ==
    (query = "Show me resumes with Python skills" /\ Classified)
        => classification.type = "document"

\* C5: the type follows from the three counts in the priority hybrid, sql,
\* document, general; sql is returned only with doc_score = 0, document only
\* with sql_score = 0, and the classification of a text is a function of it.
C5_ClassifyPriority ==
    Classified =>
        LET sq == classification.sql_score
            dc == classification.document_score
            hy == classification.hybrid_score
            ty == classification.type
        IN  /\ (ty = "hybrid") = (hy > 0 \/ (sq > 0 /\ dc > 0))
            /\ (ty = "sql") = (~(hy > 0 \/ (sq > 0 /\ dc > 0)) /\ sq > dc)
            /\ (ty = "document") =
                    (~(hy > 0 \/ (sq > 0 /\ dc > 0)) /\ ~(sq > dc) /\ dc > 0)
            /\ (ty = "general") =
                    (~(hy > 0 \/ (sq > 0 /\ dc > 0)) /\ ~(sq > dc) /\ ~(dc > 0))
            /\ (ty = "sql" => dc = 0)
            /\ (ty = "document" => sq = 0)
            /\ ty \in {"hybrid", "sql", "document", "general"}

\* a text was classified sql with two sql keywords and no document keyword
C5_Witness ==
    /\ Classified
    /\ classification.type = "sql"
    /\ classification.sql_score = 2
    /\ classification.document_score = 0

(***************************************************************************)
(* The engine: a QueryEngine object, its document processor, and the calls *)
(* made on it                                                              *)
(***************************************************************************)
EngineQueries ==
    ExampleQueries \cup
    {"hello there", "python developer", "the highest budget", "Drop dELETE",
     "please update and Insert", "Top 5 highest paid employees"}

Chunk(text, type) == [text |-> text, type |-> type]

\* the files given to the engine's document processor, with the text
\* segments dynamic_chunking cuts them into
DocInputs ==
    {[path |-> "/tmp/cv.txt", type |-> "txt",
      chunks |-> <<Chunk("python developer", "paragraph_section"),
                   Chunk("hello there", "paragraph_section")>>],
     [path |-> "/tmp/notes.txt", type |-> "txt",
      chunks |-> <<Chunk("hello there", "paragraph_section")>>]}

Sims == 1..MaxSim

\* _generate_doc_id: the path and the second of the clock
_generate_doc_id(path) == path \o "@" \o ToString(now)

IdIndex(store, id) == CHOOSE i \in DOMAIN store : store[i].id = id

\* self.document_store[doc_id] = doc_info
StoreDocument(store, doc_info) ==
    IF \E i \in DOMAIN store : store[i].id = doc_info.id
    THEN [store EXCEPT ![IdIndex(store, doc_info.id)] = doc_info]
    ELSE Append(store, doc_info)

\* the chunk texts of the store that have no vector yet
TextsToEmbed(store, emb) ==
    UNION {{store[d].chunks[i].text : i \in DOMAIN store[d].chunks} : d \in DOMAIN store} \ emb

\* the list texts_to_embed of _generate_batch_embeddings: the text of every
\* chunk of the store that has no vector yet, document by document
texts_to_embed(store, emb) ==
    Flatten([d \in DOMAIN store |->
        SelectSeq([i \in DOMAIN store[d].chunks |-> store[d].chunks[i].text],
                  LAMBDA t : t \notin emb)])

RECURSIVE LastSlash(_, _)
\* the position of the last "/" of path[1..i], 0 if there is none
LastSlash(path, i) ==
    IF i = 0 THEN 0 ELSE IF CharAt(path, i) = "/" THEN i ELSE LastSlash(path, i - 1)

\* os.path.basename(path)
Basename(path) == SubSeq(path, LastSlash(path, Len(path)) + 1, Len(path))

\* the file at path, as _extract_content and the strategy chunkers read it
FileAt(path) == CHOOSE d \in DocInputs : d.path = path

\* the message of the exception _extract_content raises on path
ExtractionError(path) == "Could not decode file " \o path \o " with any supported encoding"

\* dynamic_chunking: the chunks of the strategy, each with its metadata
dynamic_chunking(chunks, doc_type) ==
    [i \in DOMAIN chunks |->
        [text |-> chunks[i].text,
         type |-> chunks[i].type,
         chunk_id |-> i - 1,
         doc_type |-> doc_type,
         char_count |-> Len(chunks[i].text),
         word_count |-> WordCount(chunks[i].text),
         has_embedding |-> FALSE]]

\* the doc_info process_single_document builds from the chunks
DocInfo(doc_id, file_path, filename, chunks) ==
    [id |-> doc_id,
     filename |-> filename,
     file_path |-> file_path,
     type |-> FileAt(file_path).type,
     chunks |-> chunks,
     chunk_count |-> Len(chunks)]

\* the doc_info of process_single_document(file_path, filename), when
\* _extract_content does not raise
process_single_document(file_path, filename) ==
    DocInfo(_generate_doc_id(file_path), file_path, filename,
            dynamic_chunking(FileAt(file_path).chunks, FileAt(file_path).type))

\* the results dict of process_documents, before the first file
NoBatch == [processed |-> 0, failed |-> 0, total_chunks |-> 0, errors |-> <<>>]

RECURSIVE ProcessFiles(_, _, _, _, _)
\* the loop of process_documents from file i on; failing is the set of
\* positions of file_paths on which _extract_content raises
ProcessFiles(store, file_paths, failing, i, results) ==
    IF i > Len(file_paths) THEN [store |-> store, results |-> results]
    ELSE IF i \in failing
    THEN ProcessFiles(store, file_paths, failing, i + 1,
            [results EXCEPT !.failed = @ + 1,
                            !.errors = Append(@, file_paths[i] \o ": "
                                                 \o ExtractionError(file_paths[i]))])
    ELSE LET doc_info == process_single_document(file_paths[i], Basename(file_paths[i]))
         IN  ProcessFiles(StoreDocument(store, doc_info), file_paths, failing, i + 1,
                [results EXCEPT !.processed = @ + 1,
                                !.total_chunks = @ + Len(doc_info.chunks)])

\* text_to_doc_chunk[text] of _generate_batch_embeddings: the last chunk of
\* the store with that text
IsLastWithText(store, d, i) ==
    \A e \in DOMAIN store : \A j \in DOMAIN store[e].chunks :
        store[e].chunks[j].text = store[d].chunks[i].text => (e < d \/ (e = d /\ j <= i))

\* the store after _generate_batch_embeddings: has_embedding is set on the
\* chunk text_to_doc_chunk names for every text embedded
MarkEmbedded(store, emb) ==
    [d \in DOMAIN store |->
        [store[d] EXCEPT !.chunks =
            [i \in DOMAIN store[d].chunks |->
                IF store[d].chunks[i].text \notin emb /\ IsLastWithText(store, d, i)
                THEN [store[d].chunks[i] EXCEPT !.has_embedding = TRUE]
                ELSE store[d].chunks[i]]]]

\* mutant of _generate_batch_embeddings: every text of the store is embedded
\* again, and a failed batch drops the vectors of the texts it was given
_generate_batch_embeddings_rebuilding(store, emb, encode_raises) ==
    IF encode_raises
    THEN [store |-> store, emb |-> emb \ TextsToEmbed(store, {}),
          texts_to_embed |-> texts_to_embed(store, {}), raised |-> TRUE]
    ELSE [store |-> MarkEmbedded(store, {}), emb |-> emb \cup TextsToEmbed(store, {}),
          texts_to_embed |-> texts_to_embed(store, {}), raised |-> FALSE]

\* _generate_batch_embeddings: the store and the embeddings cache after it,
\* the texts given to the model, and whether model.encode raised (the
\* exception is logged)
_generate_batch_embeddings(store, emb, encode_raises) ==
    IF texts_to_embed(store, emb) = <<>> \/ encode_raises
    THEN [store |-> store, emb |-> emb,
          texts_to_embed |-> texts_to_embed(store, emb),
          raised |-> texts_to_embed(store, emb) # <<>> /\ encode_raises]
    ELSE [store |-> MarkEmbedded(store, emb),
          emb |-> emb \cup TextsToEmbed(store, emb),
          texts_to_embed |-> texts_to_embed(store, emb),
          raised |-> FALSE]

\* process_documents(file_paths)
process_documents(store, emb, file_paths, failing, encode_raises) ==
    LET loop == ProcessFiles(store, file_paths, failing, 1, NoBatch)
        embedded == _generate_batch_embeddings(loop.store, emb, encode_raises)
    IN  IF loop.results.total_chunks > 0
        THEN [store |-> embedded.store, emb |-> embedded.emb, results |-> loop.results,
              texts_to_embed |-> embedded.texts_to_embed, raised |-> embedded.raised]
        ELSE [store |-> loop.store, emb |-> emb, results |-> loop.results,
              texts_to_embed |-> <<>>, raised |-> FALSE]

InitEngine ==
    /\ schema \in Schemas
    /\ document_store = <<>>
    /\ embeddings_cache = {}
    /\ result = NoResult
    /\ calls = <<>>
    /\ env = NoEnv
    /\ TextIdle
    /\ CacheIdle
    /\ DocsIdle
    /\ AppIdle
    /\ DiscoveryIdle
    /\ ChunkIdle
    /\ StatsIdle
    /\ HistoryIdle
    /\ SqlIdle
    /\ HandlerIdle

\* Analyze over the inputs of the model
Analysis == [sch \in Schemas, q \in EngineQueries |-> Analyze(sch, q)]

\* QueryEngine.process_query(q)
ProcessQuery(q, exec, encode_raises, sim) ==
    /\ query' = q
    /\ classification' = Analysis[schema, q].classification
    /\ validation' = NoValidation
    /\ result' = process_query(Analysis[schema, q], document_store, embeddings_cache,
                               exec, sim, encode_raises).value
    /\ calls' = process_query(Analysis[schema, q], document_store, embeddings_cache,
                              exec, sim, encode_raises).calls
    /\ env' = [exec |-> exec, encode_raises |-> encode_raises]
    /\ UNCHANGED <<schema, document_store, embeddings_cache>>

\* validate_query over the inputs of the model
Validation == [q \in EngineQueries |-> validate_query(q)]

\* QueryEngine.validate_query(q)
ValidateQuery(q) ==
    /\ query' = q
    /\ classification' = NoClassification
    /\ validation' = Validation[q]
    /\ result' = NoResult
    /\ calls' = <<"validate_query">>
    /\ env' = NoEnv
    /\ UNCHANGED <<schema, document_store, embeddings_cache>>

\* DocumentProcessor.process_documents([d.path]) on the engine's processor
ProcessDocuments(d, extract_raises, encode_raises) ==
    LET run == process_documents(document_store, embeddings_cache, <<d.path>>,
                                 IF extract_raises THEN {1} ELSE {}, encode_raises)
    IN  /\ document_store' = run.store
        /\ embeddings_cache' = run.emb
        /\ query' = ""
        /\ classification' = NoClassification
        /\ validation' = NoValidation
        /\ result' = NoResult
        /\ calls' = <<"process_documents">>
        /\ env' = [exec |-> None, encode_raises |-> encode_raises]
        /\ UNCHANGED schema

NextEngine ==
    /\ \/ \E q \in EngineQueries, exec \in ExecOutcomes, encode_raises \in BOOLEAN,
            sim \in [embeddings_cache -> Sims] :
                ProcessQuery(q, exec, encode_raises, sim)
       \/ \E q \in EngineQueries : ValidateQuery(q)
       \/ \E d \in DocInputs, extract_raises \in BOOLEAN, encode_raises \in BOOLEAN :
                ProcessDocuments(d, extract_raises, encode_raises)
    /\ UNCHANGED <<cacheVars, docsVars, appVars, discoveryVars, chunkVars, statVars, historyVars, sqlVars, handlerVars>>

SpecEngine == InitEngine /\ [][NextEngine]_vars

(***************************************************************************)
(* Claims about QueryEngine                                                *)
(***************************************************************************)
\* the last call was process_query(query)
Processed == calls # <<>> /\ calls[1] = "process_query"

Called(f) == \E i \in DOMAIN calls : calls[i] = f

CalledBefore(f, g) ==
    \A i \in DOMAIN calls : calls[i] = g => \E j \in 1..(i - 1) : calls[j] = f

\* the store was asked to execute a statement and raised / returned rows
ExecutionRaised == Called("_execute_sql_query") /\ env.exec = "raise"

ExecutionReturnedRows == Called("_execute_sql_query") /\ env.exec = "rows"

\* the embedding model was asked for the query vector and raised
RetrievalRaised == Called("search_documents") /\ env.encode_raises /\ embeddings_cache # {}

RetrievalCompleted == Called("search_documents") /\ ~RetrievalRaised

\* C3: in every run of process_query that reaches store execution,
\* validate_query has been applied to the raw query text before
\* _execute_sql_query is called, and a text that validation marks invalid
\* never reaches execution.
C3_ValidatedBeforeExecution ==
    (Processed /\ Called("_execute_sql_query")) =>
        /\ CalledBefore("validate_query", "_execute_sql_query")
        /\ validate_query(query).is_valid

EmployeesSchema ==
    SchemaOf(<<Table("employees", <<"id", "name", "department", "salary", "hire_date">>,
                     "employees", 3)>>)

\* C6: with main table employees that has a column department,
\* generate("count employees in engineering") is a COUNT statement over
\* employees with a WHERE condition on the department column.
C6_CountFilteredOnDepartment ==
    (Processed /\ query = "count employees in engineering" /\ schema = EmployeesSchema
        /\ result.query_type = "sql") =>
        /\ startswith(result.sql_query, "SELECT COUNT(*) as count FROM employees")
        /\ Contains(" WHERE department ", result.sql_query)

MutatingKeywords == {"create", "alter", "drop", "delete", "insert", "update"}

IsValidateStep == calls' = <<"validate_query">>

KeywordsFound == [q \in EngineQueries |-> {kw \in MutatingKeywords : Contains(kw, lower(q))}]

ErrorNaming == [kw \in MutatingKeywords |-> "Dangerous operation detected: " \o upper(kw)]

\* C7: validate rejects every text that contains a mutating keyword in any
\* letter case, with one error naming each keyword found;
\* "SELECT * FROM employees; DROP TABLE employees" is invalid with an error
\* naming DROP; validate leaves the engine's state unchanged.
C7_ValidateRejectsMutation ==
    /\ [](calls = <<"validate_query">> =>
            /\ \A kw \in KeywordsFound[query] :
                  /\ ~validation.is_valid
                  /\ Cardinality({i \in DOMAIN validation.errors :
                                    validation.errors[i] = ErrorNaming[kw]}) = 1
            /\ (query = "SELECT * FROM employees; DROP TABLE employees" =>
                  /\ ~validation.is_valid
                  /\ \E i \in DOMAIN validation.errors :
                        validation.errors[i] = ErrorNaming["drop"]))
    /\ [][IsValidateStep => UNCHANGED <<schema, document_store, embeddings_cache>>]_vars

\* a text with two mutating keywords in mixed case was validated, on an
\* engine that holds documents
C7_Witness ==
    /\ calls = <<"validate_query">>
    /\ query = "Drop dELETE"
    /\ Len(validation.errors) = 2
    /\ document_store # <<>>

\* C8: in a hybrid query, when exactly one of SQL execution and document
\* retrieval raises, process_query returns a result of type hybrid that
\* carries the other branch's results and the failed branch's error.
C8_HybridBranchFailureIsolated ==
    (Processed /\ classification.type = "hybrid"
        /\ (ExecutionRaised \/ RetrievalRaised)) =>
        /\ result.query_type = "hybrid"
        /\ result.results.kind = "dict"
        /\ "error" \in result.keys
        /\ (RetrievalRaised => result.results.sql_results = RowsOf(env.exec))

\* C9: for a query classified general the SQL path is attempted first,
\* document retrieval is attempted exactly when the SQL path raised or
\* returned no rows, and an error result is returned only when the SQL path
\* gave no rows and document retrieval raised.
C9_GeneralFallback ==
    (Processed /\ classification.type = "general") =>
        /\ calls[3] = "map_natural_language_to_schema"
        /\ CalledBefore("_generate_sql_query", "search_documents")
        /\ Called("search_documents") = ~ExecutionReturnedRows
        /\ ("error" \in result.keys) = (~ExecutionReturnedRows /\ RetrievalRaised)
        /\ (ExecutionReturnedRows =>
              result.query_type = "sql" /\ result.results.sql_results = RowsOf("rows"))
        /\ (RetrievalCompleted => result.query_type = "document")
        /\ result.query_type # "error"

\* a general query whose SQL statement raised in the store was answered by
\* document retrieval
C9_Witness ==
    /\ Processed
    /\ classification.type = "general"
    /\ ExecutionRaised
    /\ RetrievalCompleted
    /\ result.query_type = "document"

\* C10: for a query classified sql, a failure of store execution gives a
\* result of type error with empty results and the driver's message in the
\* error field; process_query returns, and not an empty success.
C10_SqlFailureSurfaced ==
    (Processed /\ classification.type = "sql" /\ ExecutionRaised) =>
        /\ result.query_type = "error"
        /\ result.results = ListResults(<<>>, <<>>)
        /\ "error" \in result.keys
        /\ result.error = DriverError

\* the store raised on the statement of a query classified sql
C10_Witness ==
    /\ Processed
    /\ classification.type = "sql"
    /\ ExecutionRaised
    /\ result.error = DriverError

(***************************************************************************)
(* Document ingestion: a DocumentProcessor, the upload handler of main.py  *)
(* with its background tasks, and the clock                                *)
(***************************************************************************)
\* the names of the files uploaded
Filenames == {Basename(d.path) : d \in DocInputs}

\* the non-empty lists of at most MaxFiles elements of S
ListsOf(S) == UNION {[1..n -> S] : n \in 1..MaxFiles}

\* temp_path of process_documents_background
TempPath(filename) == "/tmp/" \o filename

RECURSIVE PendingFiles(_)
\* the files the background tasks have not handled yet
PendingFiles(ts) ==
    IF ts = <<>> THEN 0
    ELSE (IF Head(ts).pc = "done" THEN 0 ELSE Len(Head(ts).files) - Head(ts).i + 1)
         + PendingFiles(Tail(ts))

\* room for n more documents within the bound of the model
Room(n) == Len(document_store) + PendingFiles(tasks) + n <= MaxDocs

InitDocs ==
    /\ document_store = <<>>
    /\ embeddings_cache = {}
    /\ now = 0
    /\ DocsIdle
    /\ AppIdle
    /\ DiscoveryIdle
    /\ ChunkIdle
    /\ StatsIdle
    /\ HistoryIdle
    /\ SqlIdle
    /\ HandlerIdle
    /\ schema = [tables |-> <<>>, semantic_mapping |-> [tables |-> <<>>]]
    /\ result = NoResult
    /\ calls = <<>>
    /\ env = NoEnv
    /\ TextIdle
    /\ max_size = 1 /\ cache = <<>> /\ hits = 0 /\ misses = 0 /\ lastUse = <<>>
    /\ ret = [op |-> "init", key |-> 0, value |-> None,
              entry |-> [key |-> 0, value |-> None, expires_at |-> 0, created_at |-> 0]]

\* upload_documents(files): the job is registered and its task scheduled
UploadDocuments(files) ==
    /\ Len(ingestion_jobs) < MaxJobs
    /\ Room(Len(files))
    /\ ingestion_jobs' = Append(ingestion_jobs,
            [status |-> "processing", total_files |-> Len(files),
             processed_files |-> 0, failed_files |-> 0, files |-> <<>>])
    /\ tasks' = Append(tasks,
            [files |-> files, i |-> 1, pc |-> "read", doc_id |-> None, chunks |-> <<>>,
             processed_files |-> <<>>, raised |-> {}])
    /\ search_hits' = NoSearch
    /\ batch' = NoBatchCall
    /\ UNCHANGED <<document_store, embeddings_cache, now>>

\* the task of job j after its file i: the next file, or the end of the loop
\* and job.update
NextFile(j, t, job) ==
    IF t.i < Len(t.files)
    THEN /\ tasks' = [tasks EXCEPT ![j] = [t EXCEPT !.i = @ + 1, !.pc = "read"]]
         /\ ingestion_jobs' = [ingestion_jobs EXCEPT ![j] = job]
    ELSE /\ tasks' = [tasks EXCEPT ![j] = [t EXCEPT !.pc = "done"]]
         /\ ingestion_jobs' = [ingestion_jobs EXCEPT ![j] =
                [job EXCEPT !.status = "completed", !.files = t.processed_files]]

\* mutant of FileFailed: the exception leaves the loop over the files and
\* the handler of the task marks the job failed
FileFailedAborting(j, error) ==
    /\ tasks' = [tasks EXCEPT ![j] = [@ EXCEPT !.pc = "done", !.raised = @ \cup {tasks[j].i}]]
    /\ ingestion_jobs' = [ingestion_jobs EXCEPT ![j] = [@ EXCEPT !.status = "failed"]]

\* the except clause of the loop of process_documents_background
FileFailed(j, error) ==
    NextFile(j,
             [tasks[j] EXCEPT
                 !.processed_files = Append(@, [filename |-> tasks[j].files[tasks[j].i],
                                                status |-> "failed", chunks |-> 0,
                                                type |-> None, error |-> error]),
                 !.raised = @ \cup {tasks[j].i}],
             [ingestion_jobs[j] EXCEPT !.failed_files = @ + 1])

\* the task of job j resumes from file.read(): the temporary file is
\* written, process_single_document makes the document id and extracts
\* the content
BeginFile(j, extract_raises) ==
    /\ tasks[j].pc = "read"
    /\ IF extract_raises
       THEN FileFailed(j, ExtractionError(TempPath(tasks[j].files[tasks[j].i])))
       ELSE /\ tasks' = [tasks EXCEPT ![j] =
                    [@ EXCEPT !.pc = "chunk",
                              !.doc_id = _generate_doc_id(TempPath(tasks[j].files[tasks[j].i]))]]
            /\ UNCHANGED ingestion_jobs
    /\ search_hits' = NoSearch
    /\ batch' = NoBatchCall
    /\ UNCHANGED <<document_store, embeddings_cache, now>>

\* process_single_document of the task of job j: dynamic_chunking
ChunkFile(j) ==
    /\ tasks[j].pc = "chunk"
    /\ tasks' = [tasks EXCEPT ![j] =
            [@ EXCEPT !.pc = "store",
                      !.chunks = dynamic_chunking(
                                    FileAt(TempPath(tasks[j].files[tasks[j].i])).chunks,
                                    FileAt(TempPath(tasks[j].files[tasks[j].i])).type)]]
    /\ search_hits' = NoSearch
    /\ batch' = NoBatchCall
    /\ UNCHANGED <<ingestion_jobs, document_store, embeddings_cache, now>>

\* mutant of Registered: the document is registered with its chunks still
\* being cut, the last one missing
RegisteredEarly(t) ==
    DocInfo(t.doc_id, TempPath(t.files[t.i]), t.files[t.i],
            SubSeq(t.chunks, 1, Len(t.chunks) - 1))

\* the doc_info the task registers for its file
Registered(t) == DocInfo(t.doc_id, TempPath(t.files[t.i]), t.files[t.i], t.chunks)

\* process_single_document of the task of job j: the document is put in the
\* store; the task records the success and goes to its next file
StoreFile(j) ==
    /\ tasks[j].pc = "store"
    /\ document_store' = StoreDocument(document_store, Registered(tasks[j]))
    /\ NextFile(j,
                [tasks[j] EXCEPT
                    !.processed_files = Append(@, [filename |-> tasks[j].files[tasks[j].i],
                                                   status |-> "success",
                                                   chunks |-> Len(tasks[j].chunks),
                                                   type |-> Registered(tasks[j]).type,
                                                   error |-> None]),
                    !.doc_id = None, !.chunks = <<>>],
                [ingestion_jobs[j] EXCEPT !.processed_files = @ + 1])
    /\ search_hits' = NoSearch
    /\ batch' = NoBatchCall
    /\ UNCHANGED <<embeddings_cache, now>>

\* DocumentProcessor.process_documents(file_paths)
ProcessDocumentsCall(file_paths, failing, encode_raises) ==
    LET run == process_documents(document_store, embeddings_cache, file_paths, failing,
                                 encode_raises)
    IN  /\ Room(Len(file_paths))
        /\ document_store' = run.store
        /\ embeddings_cache' = run.emb
        /\ batch' = [file_paths |-> file_paths, failing |-> failing,
                     processed |-> run.results.processed, failed |-> run.results.failed,
                     total_chunks |-> run.results.total_chunks,
                     errors |-> run.results.errors,
                     texts_to_embed |-> run.texts_to_embed, raised |-> run.raised]
        /\ search_hits' = NoSearch
        /\ UNCHANGED <<ingestion_jobs, tasks, now>>

\* DocumentProcessor.search_documents(query, top_k)
SearchDocuments(top_k, sim, encode_raises) ==
    /\ search_hits' =
          [top_k |-> top_k,
           sim |-> sim,
           encode_raises |-> encode_raises,
           encode_called |-> EncodesQuery(embeddings_cache),
           raised |-> SearchRaises(embeddings_cache, encode_raises),
           found |-> IF SearchRaises(embeddings_cache, encode_raises) THEN <<>>
                     ELSE search_documents(document_store, embeddings_cache, sim, top_k)]
    /\ batch' = NoBatchCall
    /\ UNCHANGED <<ingestion_jobs, tasks, document_store, embeddings_cache, now>>

\* a second of the clock passes
AdvanceClock ==
    /\ now < MaxClock
    /\ now' = now + 1
    /\ search_hits' = NoSearch
    /\ batch' = NoBatchCall
    /\ UNCHANGED <<ingestion_jobs, tasks, document_store, embeddings_cache>>

NextDocs ==
    /\ \/ \E files \in ListsOf(Filenames) : UploadDocuments(files)
       \/ \E j \in DOMAIN tasks, extract_raises \in BOOLEAN : BeginFile(j, extract_raises)
       \/ \E j \in DOMAIN tasks : ChunkFile(j)
       \/ \E j \in DOMAIN tasks : StoreFile(j)
       \/ \E file_paths \in ListsOf({d.path : d \in DocInputs}) :
            \E failing \in SUBSET DOMAIN file_paths, encode_raises \in BOOLEAN :
                ProcessDocumentsCall(file_paths, failing, encode_raises)
       \/ \E top_k \in 1..MaxTopK, sim \in [embeddings_cache -> Sims],
            encode_raises \in BOOLEAN : SearchDocuments(top_k, sim, encode_raises)
       \/ AdvanceClock
    /\ UNCHANGED <<max_size, cache, hits, misses, ret, lastUse>>
    /\ UNCHANGED <<textVars, schema, result, calls, env, appVars, discoveryVars, chunkVars, statVars, historyVars, sqlVars, handlerVars>>

SpecDocs == InitDocs /\ [][NextDocs]_vars

(***************************************************************************)
(* Claims about document ingestion and search                              *)
(***************************************************************************)
\* the ids of the documents in a store
IdsOf(store) == {store[d].id : d \in DOMAIN store}

\* the job and the task of an upload agree on the files handled so far
JobAccounts(job, t) ==
    /\ job.status \in {"processing", "completed"}
    /\ (job.status = "completed") = (t.pc = "done")
    /\ job.total_files = Len(t.files)
    /\ job.processed_files + job.failed_files = Len(t.processed_files)
    /\ job.failed_files = Cardinality(t.raised)
    /\ job.status = "completed" =>
          /\ job.processed_files + job.failed_files = job.total_files
          /\ Len(job.files) = job.total_files
          /\ \A i \in DOMAIN job.files :
                /\ job.files[i].filename = t.files[i]
                /\ IF i \in t.raised
                   THEN /\ job.files[i].status = "failed"
                        /\ job.files[i].error = ExtractionError(TempPath(t.files[i]))
                   ELSE /\ job.files[i].status = "success"
                        /\ \E d \in DOMAIN document_store :
                              document_store[d].file_path = TempPath(t.files[i])

\* the results of process_documents account for every path given
BatchAccounts ==
    /\ batch.processed + batch.failed = Len(batch.file_paths)
    /\ batch.failed = Cardinality(batch.failing)
    /\ Len(batch.errors) = batch.failed
    /\ \A i \in batch.failing : \E e \in DOMAIN batch.errors :
          batch.errors[e] = batch.file_paths[i] \o ": " \o ExtractionError(batch.file_paths[i])
    /\ \A i \in DOMAIN batch.file_paths : i \notin batch.failing =>
          \E d \in DOMAIN document_store : document_store[d].file_path = batch.file_paths[i]

\* a step in which the extraction of a file of an upload failed
IsFailedFileStep ==
    \E j \in DOMAIN tasks : tasks'[j].raised # tasks[j].raised

\* a call of process_documents in which every extraction failed
IsFailedBatchStep ==
    batch' # NoBatchCall /\ batch'.failing = DOMAIN batch'.file_paths

\* C11: batch ingestion isolates per-document failures: whatever items fail
\* extraction, every other item is processed, the job ends completed and
\* never failed, processed + failed is the number of items, each failure is
\* reported with its filename and error, and a failed item adds no document
\* to the document store.
C11_FailuresIsolated ==
    /\ [](\A j \in DOMAIN ingestion_jobs : JobAccounts(ingestion_jobs[j], tasks[j]))
    /\ [](batch # NoBatchCall => BatchAccounts)
    /\ [][(IsFailedFileStep \/ IsFailedBatchStep) =>
             UNCHANGED <<document_store, embeddings_cache>>]_vars
    /\ [][batch' # NoBatchCall =>
             Len(document_store') <= Len(document_store) + batch'.processed]_vars

\* an upload of two files whose first failed extraction and whose second
\* was processed has completed
C11_Witness ==
    \E j \in DOMAIN ingestion_jobs :
        /\ ingestion_jobs[j].status = "completed"
        /\ ingestion_jobs[j].total_files = 2
        /\ tasks[j].raised = {1}
        /\ ingestion_jobs[j].files[2].status = "success"
        /\ Len(document_store) = 1

\* doc holds the whole chunk sequence of its file, numbered from 0
CompletelyChunked(doc) ==
    /\ doc.chunk_count = Len(doc.chunks)
    /\ Len(doc.chunks) = Len(FileAt(doc.file_path).chunks)
    /\ \A i \in DOMAIN doc.chunks :
          /\ doc.chunks[i].chunk_id = i - 1
          /\ doc.chunks[i].text = FileAt(doc.file_path).chunks[i].text

\* hit is a chunk of a document that is registered in the store
FromRegistered(hit) ==
    \E d \in DOMAIN document_store :
        /\ document_store[d].id = hit.doc_id
        /\ document_store[d].filename = hit.filename
        /\ \E i \in DOMAIN document_store[d].chunks :
              document_store[d].chunks[i].text = hit.chunk_text

\* C12: an ingestion in progress never publishes a partially chunked
\* document: in every state, whatever the interleaving of searches with the
\* background task, every document in the store has its complete chunk
\* sequence with indexes 0..n-1 and chunk_count = n, and every hit of a
\* search is a chunk of a registered document.
C12_NoPartialDocument ==
    /\ \A d \in DOMAIN document_store : CompletelyChunked(document_store[d])
    /\ \A k \in DOMAIN search_hits.found : FromRegistered(search_hits.found[k])

\* a search returned hits while a task held a chunked document that it had
\* not registered yet
C12_Witness ==
    /\ search_hits.found # <<>>
    /\ \E j \in DOMAIN tasks :
          /\ tasks[j].pc = "store"
          /\ Len(tasks[j].chunks) = 2
          /\ tasks[j].doc_id \notin IdsOf(document_store)

\* search_documents was called and returned
Searched == search_hits.top_k > 0 /\ ~search_hits.raised

\* the chunks of the store that have a vector, by document and position
Embedded ==
    {p \in UNION {{<<d, i>> : i \in DOMAIN document_store[d].chunks} :
                  d \in DOMAIN document_store} :
        document_store[p[1]].chunks[p[2]].text \in embeddings_cache}

\* chunk p comes before chunk q in the store
Before(p, q) == p[1] < q[1] \/ (p[1] = q[1] /\ p[2] < q[2])

\* p ranks above q: it is more similar to the query, or as similar and earlier
RanksAbove(p, q) ==
    LET sp == search_hits.sim[document_store[p[1]].chunks[p[2]].text]
        sq == search_hits.sim[document_store[q[1]].chunks[q[2]].text]
    IN  sp > sq \/ (sp = sq /\ Before(p, q))

\* hit is what search_documents returns for chunk p
HitOf(hit, p) ==
    /\ hit.doc_id = document_store[p[1]].id
    /\ hit.chunk_text = document_store[p[1]].chunks[p[2]].text
    /\ hit.chunk_type = document_store[p[1]].chunks[p[2]].type
    /\ hit.similarity_score = search_hits.sim[hit.chunk_text]

\* C14: search returns only chunks that have a vector, by descending
\* similarity with equal similarities in chunk order (document insertion
\* order, then position), and exactly min(top_k, number of chunks with a
\* vector) of them: the hits are the chunks that rank highest, in rank order.
C14_SearchRanking ==
    Searched =>
        /\ Len(search_hits.found) = Min(search_hits.top_k, Cardinality(Embedded))
        /\ \E pos \in [DOMAIN search_hits.found -> Embedded] :
              /\ \A k \in DOMAIN pos : HitOf(search_hits.found[k], pos[k])
              /\ \A k, l \in DOMAIN pos : k < l => RanksAbove(pos[k], pos[l])
              /\ \A p \in Embedded : \A k \in DOMAIN pos :
                    p = pos[k] \/ RanksAbove(pos[k], p) \/ \E l \in DOMAIN pos : p = pos[l]

\* a search cut to two hits three chunks with vectors, two of them equally
\* similar to the query
C14_Witness ==
    /\ Searched
    /\ Cardinality(Embedded) = 3
    /\ Len(search_hits.found) = 2
    /\ search_hits.found[1].similarity_score = search_hits.found[2].similarity_score
    /\ search_hits.found[1].doc_id # search_hits.found[2].doc_id

\* C15: search with an empty embedding index, also with documents stored
\* and none embedded, returns an empty sequence, does not raise and does not
\* call the embedding model.
C15_EmptyIndexSearch ==
    (search_hits.top_k > 0 /\ embeddings_cache = {}) =>
        /\ search_hits.found = <<>>
        /\ ~search_hits.raised
        /\ ~search_hits.encode_called

\* a search was made with documents stored, none embedded, and an embedding
\* model that raises
C15_Witness ==
    /\ search_hits.top_k > 0
    /\ search_hits.encode_raises
    /\ embeddings_cache = {}
    /\ document_store # <<>>
    /\ search_hits.found = <<>>

\* the ids of the documents the call of process_documents in this step
\* registers
NewlyRegistered ==
    {_generate_doc_id(batch'.file_paths[i]) :
        i \in DOMAIN batch'.file_paths \ batch'.failing}

\* a call of process_documents in which model.encode raised
IsFailedEmbedStep == batch' # NoBatchCall /\ batch'.raised

\* C16: a total failure of the embedding batch call is tolerated:
\* process_documents returns, the documents stored before and their chunks
\* are unchanged, the chunks registered by the call remain, without a
\* vector, and the embedding index is unchanged; over any sequence of
\* operations the embedding index only grows, and no text that has a vector
\* is given to the model again.
C16_EmbeddingFailureTolerated ==
    /\ [][IsFailedEmbedStep =>
             /\ embeddings_cache' = embeddings_cache
             /\ batch'.processed + batch'.failed = Len(batch'.file_paths)
             /\ Len(document_store') >= Len(document_store)
             /\ \A d \in DOMAIN document_store :
                   \/ document_store'[d] = document_store[d]
                   \/ document_store'[d].id \in NewlyRegistered
             /\ \A d \in DOMAIN document_store' :
                   document_store'[d].id \in NewlyRegistered =>
                       /\ CompletelyChunked(document_store'[d])
                       /\ \A i \in DOMAIN document_store'[d].chunks :
                             ~document_store'[d].chunks[i].has_embedding]_vars
    /\ [][embeddings_cache \subseteq embeddings_cache']_vars
    /\ [][batch' # NoBatchCall =>
             /\ \A i \in DOMAIN batch'.texts_to_embed :
                   batch'.texts_to_embed[i] \notin embeddings_cache
             /\ \A t \in embeddings_cache' \ embeddings_cache :
                   InSeq(t, batch'.texts_to_embed)]_vars

\* model.encode raised in a call of process_documents made with vectors in
\* the index: the vectors are kept and the new chunks are stored without one
C16_Witness ==
    /\ batch # NoBatchCall
    /\ batch.raised
    /\ batch.processed = 1
    /\ embeddings_cache # {}
    /\ \E d \in DOMAIN document_store : \E i \in DOMAIN document_store[d].chunks :
          document_store[d].chunks[i].text \notin embeddings_cache

\* the number of documents whose ingestion succeeds in this step
IngestedInStep ==
    (IF batch' # NoBatchCall THEN batch'.processed ELSE 0)
    + Cardinality({j \in DOMAIN ingestion_jobs :
                      ingestion_jobs'[j].processed_files > ingestion_jobs[j].processed_files})

\* C17: the document collection is append-only: every successful ingest
\* adds exactly one new document to the store and no ingest removes or
\* replaces a document stored before, also for two ingests of the same
\* source path, or of uploads of the same name, in close succession.
C17_AppendOnly ==
    [][/\ Len(document_store') = Len(document_store) + IngestedInStep
       /\ \A d \in DOMAIN document_store :
             /\ d \in DOMAIN document_store'
             /\ document_store'[d].id = document_store[d].id]_vars

(***************************************************************************)
(* The connect and query handlers of main.py                               *)
(***************************************************************************)
InitApp ==
    /\ AppIdle
    /\ CacheIdle
    /\ TextIdle
    /\ EngineIdle
    /\ DocsIdle
    /\ DiscoveryIdle
    /\ ChunkIdle
    /\ StatsIdle
    /\ HistoryIdle
    /\ SqlIdle
    /\ HandlerIdle

\* the message of the exception analyze_database raises
ConnectionError == "Database connection failed"

\* QueryEngine(connection_string): the schema model of its own discovery
\* and a DocumentProcessor of its own, with nothing stored
NewEngine(db) == [schema |-> db, document_store |-> <<>>, embeddings_cache |-> {}]

\* connect_database up to the construction of the engine: analyze_database
\* on the connection string, then QueryEngine(connection_string), which
\* runs its own analyze_database; db is the schema model discovery builds,
\* fails says that one of the two discoveries raises
ConnectDiscover(db, fails) ==
    /\ connects.pc # "built"
    /\ Len(engines) < MaxConnects
    /\ IF fails
       THEN /\ connects' = [NoConnect EXCEPT !.pc = "failed"]
            /\ UNCHANGED engines
       ELSE /\ engines' = Append(engines, NewEngine(db))
            /\ connects' = [pc |-> "built", engine |-> Len(engines) + 1, schema_info |-> db]
    /\ UNCHANGED <<app_state, requests>>

\* mutant of Installed: the engine in place keeps its identity and is given
\* the new schema model
InstalledInPlace(app, es, c) ==
    IF app.query_engine = 0
    THEN [app_state |-> [query_engine |-> c.engine, connected_database |-> TRUE,
                         schema_info |-> c.schema_info],
          engines |-> es]
    ELSE [app_state |-> [app EXCEPT !.schema_info = c.schema_info],
          engines |-> [es EXCEPT ![app.query_engine].schema = es[c.engine].schema]]

\* app_state and the engines after the three assignments of connect_database
Installed(app, es, c) ==
    [app_state |-> [query_engine |-> c.engine, connected_database |-> TRUE,
                    schema_info |-> c.schema_info],
     engines |-> es]

\* connect_database: the new engine and schema are assigned to app_state
ConnectInstall ==
    /\ connects.pc = "built"
    /\ app_state' = Installed(app_state, engines, connects).app_state
    /\ engines' = Installed(app_state, engines, connects).engines
    /\ connects' = [connects EXCEPT !.pc = "installed"]
    /\ UNCHANGED requests

\* the process_query handler reads app_state.query_engine and calls its
\* process_query; with no engine it answers 400 and nothing changes
QueryBegin ==
    /\ app_state.query_engine # 0
    /\ Len(requests) < MaxRequests
    /\ requests' = Append(requests,
            [engine |-> app_state.query_engine, pc |-> "mapping", reads |-> <<>>])
    /\ UNCHANGED <<app_state, engines, connects>>

\* QueryEngine.process_query of request r reads self.schema: for the schema
\* mapping first, for the generation of the statement next
QueryRead(r) ==
    /\ requests[r].pc \in {"mapping", "generate"}
    /\ requests' = [requests EXCEPT ![r] =
            [@ EXCEPT !.reads = Append(@, engines[requests[r].engine].schema),
                      !.pc = IF @ = "mapping" THEN "generate" ELSE "done"]]
    /\ UNCHANGED <<app_state, engines, connects>>

NextApp ==
    /\ \/ \E db \in Schemas, fails \in BOOLEAN : ConnectDiscover(db, fails)
       \/ ConnectInstall
       \/ QueryBegin
       \/ \E r \in DOMAIN requests : QueryRead(r)
    /\ UNCHANGED <<cacheVars, textVars, engineVars, docsVars, discoveryVars, chunkVars, statVars, historyVars, sqlVars, handlerVars>>

SpecApp == InitApp /\ [][NextApp]_vars

\* C13: reconnect swaps the schema model atomically: under any interleaving
\* of connect and query requests every query reads one schema model, whole,
\* the one its engine was made with; no engine's model is ever changed in
\* place; and a connect that fails leaves the installed engine and schema
\* unchanged.
C13_AtomicReconnect ==
    /\ [](\A r \in DOMAIN requests : \A i \in DOMAIN requests[r].reads :
             /\ requests[r].reads[i] \in Schemas
             /\ requests[r].reads[i] = requests[r].reads[1])
    /\ [][\A e \in DOMAIN engines : engines'[e] = engines[e]]_vars
    /\ [][connects'.pc = "failed" => UNCHANGED <<app_state, engines>>]_vars

\* a query that had read the schema once finished on the model of its
\* engine after another engine with another model had been installed
C13_Witness ==
    \E r \in DOMAIN requests :
        /\ requests[r].pc = "done"
        /\ app_state.query_engine # requests[r].engine
        /\ engines[app_state.query_engine].schema # engines[requests[r].engine].schema
        /\ requests[r].reads[2] = engines[requests[r].engine].schema

(***************************************************************************)
(* SchemaDiscovery.analyze_database                                        *)
(***************************************************************************)
endswith(s, suffix) ==
    Len(s) >= Len(suffix) /\ SubSeq(s, Len(s) - Len(suffix) + 1, Len(s)) = suffix

RECURSIVE replace(_, _, _)
\* s.replace(old, new), old not empty
replace(s, old, new) ==
    IF Len(s) < Len(old) THEN s
    ELSE IF startswith(s, old)
    THEN new \o replace(SubSeq(s, Len(old) + 1, Len(s)), old, new)
    ELSE SubSeq(s, 1, 1) \o replace(SubSeq(s, 2, Len(s)), old, new)

\* the blocks a[i..i+k-1] = b[j..j+k-1], as <<i, j, k>>
Blocks(a, b) ==
    {m \in (1..Len(a)) \X (1..Len(b)) \X (1..Min(Len(a), Len(b))) :
        /\ m[1] + m[3] - 1 <= Len(a)
        /\ m[2] + m[3] - 1 <= Len(b)
        /\ SubSeq(a, m[1], m[1] + m[3] - 1) = SubSeq(b, m[2], m[2] + m[3] - 1)}

\* SequenceMatcher.find_longest_match: the longest block, of those the one
\* that starts earliest in a, of those the one that starts earliest in b
find_longest_match(a, b) ==
    CHOOSE m \in Blocks(a, b) : \A n \in Blocks(a, b) :
        \/ m[3] > n[3]
        \/ (m[3] = n[3] /\ (m[1] < n[1] \/ (m[1] = n[1] /\ m[2] <= n[2])))

RECURSIVE MatchedChars(_, _)
\* the sum of the sizes of SequenceMatcher.get_matching_blocks
MatchedChars(a, b) ==
    IF Blocks(a, b) = {} THEN 0
    ELSE LET m == find_longest_match(a, b)
         IN  m[3] + MatchedChars(SubSeq(a, 1, m[1] - 1), SubSeq(b, 1, m[2] - 1))
                  + MatchedChars(SubSeq(a, m[1] + m[3], Len(a)),
                                 SubSeq(b, m[2] + m[3], Len(b)))

\* SequenceMatcher(None, a, b).ratio() > 0.8, the ratio being 2 * M / T
SimilarityAboveThreshold(a, b) ==
    IF Len(a) + Len(b) = 0 THEN TRUE
    ELSE 10 * MatchedChars(a, b) > 4 * (Len(a) + Len(b))

_columns_likely_related(col1, col2, table1, table2) ==
    LET col1_lower == lower(col1)
        col2_lower == lower(col2)
    IN  \/ /\ endswith(col1_lower, "_id")
           /\ col2_lower = "id"
           /\ Contains(replace(col1_lower, "_id", ""), lower(table2))
        \/ /\ endswith(col2_lower, "_id")
           /\ col1_lower = "id"
           /\ Contains(replace(col2_lower, "_id", ""), lower(table1))
        \/ SimilarityAboveThreshold(col1_lower, col2_lower)

\* a relationship dict; keys are the keys it has, confidence is in tenths
Relationship(type, from_table, from_columns, to_table, to_columns, confidence) ==
    [keys |-> {"type", "from_table", "from_columns", "to_table", "to_columns"}
              \cup (IF type = "inferred" THEN {"confidence"} ELSE {}),
     type |-> type, from_table |-> from_table, from_columns |-> from_columns,
     to_table |-> to_table, to_columns |-> to_columns, confidence |-> confidence]

\* the loops over table1, table2, col1 and col2
_infer_implicit_relationships(tables_info) ==
    Flatten([t1 \in DOMAIN tables_info |->
        Flatten([t2 \in DOMAIN tables_info |->
            IF tables_info[t1].name = tables_info[t2].name THEN <<>>
            ELSE Flatten([c1 \in DOMAIN tables_info[t1].columns |->
                    Flatten([c2 \in DOMAIN tables_info[t2].columns |->
                        IF _columns_likely_related(tables_info[t1].columns[c1],
                                                   tables_info[t2].columns[c2],
                                                   tables_info[t1].name,
                                                   tables_info[t2].name)
                        THEN <<Relationship("inferred", tables_info[t1].name,
                                            <<tables_info[t1].columns[c1]>>,
                                            tables_info[t2].name,
                                            <<tables_info[t2].columns[c2]>>, 7)>>
                        ELSE <<>>])])])])

_discover_relationships(tables_info) ==
    Flatten([t \in DOMAIN tables_info |->
        [f \in DOMAIN tables_info[t].foreign_keys |->
            Relationship("foreign_key", tables_info[t].name,
                         tables_info[t].foreign_keys[f].constrained_columns,
                         tables_info[t].foreign_keys[f].referred_table,
                         tables_info[t].foreign_keys[f].referred_columns, 0)]])
    \o _infer_implicit_relationships(tables_info)

\* each pattern of the three lists is a literal followed by optional parts
\* (emp(?:loyee)?s?, workers?, pay(?:_?rate)?, ...) or an alternation of
\* literals: re.search finds it exactly when the literal occurs
employee_patterns == <<"emp", "staff", "personnel", "worker", "people">>
department_patterns == <<"dept", "division", "team", "unit">>
salary_patterns == <<"salary", "salaries", "compensation", "pay", "wage", "income">>

_classify_table_purpose(table_name, columns) ==
    LET table_lower == lower(table_name)
        column_names == [c \in DOMAIN columns |-> lower(columns[c])]
    IN  IF ContainsAny(employee_patterns, table_lower) THEN "employees"
        ELSE IF ContainsAny(department_patterns, table_lower) THEN "departments"
        ELSE IF \E c \in DOMAIN column_names :
                    /\ Contains("name", column_names[c])
                    /\ ContainsAny(<<"emp", "person", "staff">>, column_names[c])
        THEN "employees"
        ELSE IF \E c \in DOMAIN column_names :
                    ContainsAny(<<"dept", "division">>, column_names[c])
        THEN "departments"
        ELSE IF ContainsAny(salary_patterns, Join(" ", column_names)) THEN "compensation"
        ELSE "other"

\* _get_row_count: the count, and 0 when the count query raises
_get_row_count(t) == IF t.count_fails THEN 0 ELSE t.rows

\* tables_info, as the sequence of its values, each with its key; keys are
\* the keys of the table's dict
_discover_tables(db) ==
    [t \in DOMAIN db |->
        [keys |-> {"columns", "primary_keys", "foreign_keys", "indexes", "sample_data",
                   "purpose", "row_count"},
         name |-> db[t].name,
         columns |-> db[t].columns,
         primary_keys |-> db[t].primary_keys,
         foreign_keys |-> db[t].foreign_keys,
         purpose |-> _classify_table_purpose(db[t].name, db[t].columns),
         row_count |-> _get_row_count(db[t])]]

\* analyze_database; connect_fails says that the connection test raises
analyze_database(db, connect_fails) ==
    IF connect_fails THEN [NoDiscovery EXCEPT !.done = TRUE, !.raised = TRUE]
    ELSE [done |-> TRUE, raised |-> FALSE,
          tables |-> _discover_tables(db),
          relationships |-> _discover_relationships(_discover_tables(db)),
          semantic_mapping |-> _create_semantic_mapping(_discover_tables(db))]

RECURSIVE Pick(_, _, _)
\* the elements of s at the positions of S that are at least i, in order
Pick(s, S, i) ==
    IF i > Len(s) THEN <<>>
    ELSE (IF i \in S THEN <<s[i]>> ELSE <<>>) \o Pick(s, S, i + 1)

\* the non-empty subsequences of s
Subsequences(s) == {Pick(s, S, 1) : S \in (SUBSET DOMAIN s) \ {{}}}

ForeignKey(column, table, referred) ==
    [constrained_columns |-> <<column>>, referred_table |-> table,
     referred_columns |-> <<referred>>]

\* the databases analysed: employees and departments, with some of their
\* columns, with or without a foreign key from employees.dept_id to the
\* key of departments, each table's count query answering or failing
Databases ==
    {<<[name |-> "employees", columns |-> ec,
        primary_keys |-> IF InSeq("id", ec) THEN <<"id">> ELSE <<>>,
        foreign_keys |-> fk, rows |-> 3, count_fails |-> ef],
       [name |-> "departments", columns |-> dc,
        primary_keys |-> IF InSeq("id", dc) THEN <<"id">> ELSE <<>>,
        foreign_keys |-> <<>>, rows |-> 2, count_fails |-> df]>> :
        ec \in Subsequences(<<"id", "name", "dept_id">>),
        dc \in Subsequences(<<"id", "dept_id", "name">>),
        fk \in {<<>>} \cup {<<ForeignKey("dept_id", "departments", r)>> : r \in {"id", "dept_id"}},
        ef \in BOOLEAN, df \in BOOLEAN}

\* the foreign key of employees.dept_id is declared only where both columns are
ConsistentDatabases ==
    {db \in Databases :
        db[1].foreign_keys # <<>> =>
            /\ InSeq("dept_id", db[1].columns)
            /\ InSeq(db[1].foreign_keys[1].referred_columns[1], db[2].columns)}

InitDiscovery ==
    /\ database \in ConsistentDatabases
    /\ discovered = NoDiscovery
    /\ CacheIdle
    /\ TextIdle
    /\ EngineIdle
    /\ DocsIdle
    /\ AppIdle
    /\ ChunkIdle
    /\ StatsIdle
    /\ HistoryIdle
    /\ SqlIdle
    /\ HandlerIdle

\* SchemaDiscovery.analyze_database(connection_string)
Discover(connect_fails) ==
    /\ discovered' = analyze_database(database, connect_fails)
    /\ UNCHANGED database

NextDiscovery ==
    /\ \E connect_fails \in BOOLEAN : Discover(connect_fails)
    /\ UNCHANGED <<cacheVars, textVars, engineVars, docsVars, appVars, chunkVars, statVars, historyVars, sqlVars, handlerVars>>

SpecDiscovery == InitDiscovery /\ [][NextDiscovery]_vars

\* the schema model of the database was returned
Discovered == discovered.done /\ ~discovered.raised

\* C18: in every schema model discovery returns, no two relationships have
\* the same from-table, from-columns and kind, no inferred relationship has
\* the from-table and from-columns of a foreign-key relationship, and every
\* inferred relationship has kind inferred and a confidence below 1.0.
C18_RelationshipsUnique ==
    Discovered =>
        LET rels == discovered.relationships
        IN  /\ \A i, j \in DOMAIN rels :
                  (i # j /\ rels[i].from_table = rels[j].from_table
                         /\ rels[i].from_columns = rels[j].from_columns)
                  => rels[i].type # rels[j].type
            /\ \A i, j \in DOMAIN rels :
                  (rels[i].type = "inferred" /\ rels[j].type = "foreign_key")
                  => ~(rels[i].from_table = rels[j].from_table
                       /\ rels[i].from_columns = rels[j].from_columns)
            /\ \A i \in DOMAIN rels : "confidence" \in rels[i].keys =>
                  rels[i].type = "inferred" /\ rels[i].confidence < 10

\* C19: a row-count failure does not abort discovery: whatever tables'
\* count queries fail, the schema model returned has every table with its
\* columns and keys, and the row count of each failing table is absent.
C19_RowCountFailureTolerated ==
    Discovered =>
        /\ Len(discovered.tables) = Len(database)
        /\ \A t \in DOMAIN database :
              /\ discovered.tables[t].name = database[t].name
              /\ discovered.tables[t].columns = database[t].columns
              /\ discovered.tables[t].primary_keys = database[t].primary_keys
              /\ discovered.tables[t].foreign_keys = database[t].foreign_keys
              /\ IF database[t].count_fails
                 THEN "row_count" \notin discovered.tables[t].keys
                 ELSE /\ "row_count" \in discovered.tables[t].keys
                      /\ discovered.tables[t].row_count = database[t].rows

(***************************************************************************)
(* DocumentProcessor: the four chunking strategies                         *)
(***************************************************************************)
base_chunk_size == 512
chunk_overlap == 50

\* the positions where sep occurs in s
Occurrences(s, sep) ==
    {i \in 1..(Len(s) - Len(sep) + 1) : SubSeq(s, i, i + Len(sep) - 1) = sep}

Least(S) == CHOOSE i \in S : \A j \in S : i <= j

RECURSIVE SplitFrom(_, _, _, _)
\* the parts of s[start..] between the occurrences of sep, taken left to
\* right without overlap
SplitFrom(s, sep, occ, start) ==
    LET ahead == {i \in occ : i >= start}
    IN  IF ahead = {} THEN <<SubSeq(s, start, Len(s))>>
        ELSE <<SubSeq(s, start, Least(ahead) - 1)>>
             \o SplitFrom(s, sep, occ, Least(ahead) + Len(sep))

\* s.split(sep)
split(s, sep) == SplitFrom(s, sep, Occurrences(s, sep), 1)

\* ---- _chunk_csv_content ----
CsvLine(st, line) ==
    IF st.chunk_size + Len(line) > base_chunk_size /\ st.current_chunk # ""
    THEN [chunks |-> Append(st.chunks, Chunk(strip(st.current_chunk), "csv_section")),
          current_chunk |-> line \o "\n",
          chunk_size |-> Len(line)]
    ELSE [chunks |-> st.chunks,
          current_chunk |-> st.current_chunk \o line \o "\n",
          chunk_size |-> st.chunk_size + Len(line)]

RECURSIVE CsvLines(_, _, _)
CsvLines(st, lines, i) ==
    IF i > Len(lines) THEN st ELSE CsvLines(CsvLine(st, lines[i]), lines, i + 1)

_chunk_csv_content(text) ==
    LET st == CsvLines([chunks |-> <<>>, current_chunk |-> "", chunk_size |-> 0],
                       split(text, "\n"), 1)
    IN  IF strip(st.current_chunk) # ""
        THEN Append(st.chunks, Chunk(strip(st.current_chunk), "csv_section"))
        ELSE st.chunks

\* ---- _is_resume_content, _chunk_resume_content ----
resume_indicators ==
    <<"experience", "education", "skills", "objective",
      "summary", "employment", "qualifications", "projects">>

_is_resume_content(text) == Score(resume_indicators, lower(text)) >= 3

\* \b(a|b|c)\b, as the alternatives of its group
section_patterns ==
    <<<<"summary", "objective", "profile">>,
      <<"experience", "employment", "work history">>,
      <<"education", "academic">>,
      <<"skills", "technical skills", "competencies">>,
      <<"projects", "portfolio">>,
      <<"certifications", "licenses">>>>

\* the characters \w matches
WordChars == UpperChars \o LowerChars \o DigitChars \o "_"

\* \b holds between the positions i - 1 and i of s, the characters on both
\* sides of the word being word characters
WordAt(w, s, i) ==
    /\ i + Len(w) - 1 <= Len(s)
    /\ SubSeq(s, i, i + Len(w) - 1) = w
    /\ (i = 1 \/ ~CharIn(CharAt(s, i - 1), WordChars))
    /\ (i + Len(w) > Len(s) \/ ~CharIn(CharAt(s, i + Len(w)), WordChars))

\* the matches of \b(alternatives)\b in s, as <<position, alternative>>
SectionMatches(alternatives, s) ==
    {m \in (1..Len(s)) \X DOMAIN alternatives : WordAt(alternatives[m[2]], s, m[1])}

\* re.search(pattern, s).group(1): the leftmost match, and there the first
\* alternative that matches
SectionGroup(alternatives, s) ==
    LET ms == SectionMatches(alternatives, s)
        m == CHOOSE x \in ms : \A y \in ms :
                 x[1] < y[1] \/ (x[1] = y[1] /\ x[2] <= y[2])
    IN  alternatives[m[2]]

ResumeLine(st, line) ==
    LET line_lower == strip(lower(line))
        found == {p \in DOMAIN section_patterns :
                     SectionMatches(section_patterns[p], line_lower) # {}}
        extended == st.current_section \o line \o "\n"
    IN  IF found # {}
        THEN [chunks |-> IF strip(st.current_section) # ""
                         THEN Append(st.chunks, Chunk(strip(st.current_section),
                                                      "resume_" \o st.current_type))
                         ELSE st.chunks,
              current_section |-> line \o "\n",
              current_type |-> SectionGroup(section_patterns[Least(found)], line_lower)]
        ELSE IF Len(extended) > base_chunk_size * 2
        THEN [chunks |-> Append(st.chunks, Chunk(strip(extended),
                                                 "resume_" \o st.current_type)),
              current_section |-> "",
              current_type |-> st.current_type]
        ELSE [st EXCEPT !.current_section = extended]

RECURSIVE ResumeLines(_, _, _)
ResumeLines(st, lines, i) ==
    IF i > Len(lines) THEN st ELSE ResumeLines(ResumeLine(st, lines[i]), lines, i + 1)

_chunk_resume_content(text) ==
    LET st == ResumeLines([chunks |-> <<>>, current_section |-> "",
                           current_type |-> "general"], split(text, "\n"), 1)
    IN  IF strip(st.current_section) # ""
        THEN Append(st.chunks, Chunk(strip(st.current_section),
                                     "resume_" \o st.current_type))
        ELSE st.chunks

\* ---- _is_contract_content, _chunk_contract_content ----
contract_indicators ==
    <<"agreement", "contract", "terms", "conditions",
      "whereas", "party", "clause", "section", "article">>

_is_contract_content(text) == Score(contract_indicators, lower(text)) >= 3

\* the raw strings of clause_patterns
clause_patterns ==
    <<"\\n\\s*\\d+\\.\\s+",
      "\\n\\s*\\([a-z]\\)\\s+",
      "\\n\\s*Article\\s+\\d+",
      "\\n\\s*Section\\s+\\d+">>

\* the atom of the pattern text src at position i: what it matches and how
\* many characters of src it takes
\* s[i..j], cut at the end of s
Slice(s, i, j) == IF i > Len(s) THEN "" ELSE SubSeq(s, i, Min(j, Len(s)))

PatternAtom(src, i) ==
    IF CharAt(src, i) = "\\"
    THEN LET c == Slice(src, i + 1, i + 1)
         IN  [chars |-> IF c = "s" THEN WhitespaceChars
                        ELSE IF c = "d" THEN DigitChars
                        ELSE IF c = "n" THEN "\n"
                        ELSE c,
              size |-> 2]
    ELSE IF Slice(src, i, i + 4) = "[a-z]" THEN [chars |-> LowerChars, size |-> 5]
    ELSE [chars |-> CharAt(src, i), size |-> 1]

RECURSIVE CompileFrom(_, _)
\* re.compile of the pattern text src[i..]: atoms, each with its * or +
CompileFrom(src, i) ==
    IF i > Len(src) THEN <<>>
    ELSE LET atom == PatternAtom(src, i)
             quantifier == Slice(src, i + atom.size, i + atom.size)
         IN  IF quantifier = "*"
             THEN <<Cls(atom.chars, 0, 0)>> \o CompileFrom(src, i + atom.size + 1)
             ELSE IF quantifier = "+"
             THEN <<Cls(atom.chars, 1, 0)>> \o CompileFrom(src, i + atom.size + 1)
             ELSE <<Cls(atom.chars, 1, 1)>> \o CompileFrom(src, i + atom.size)

\* re.match(pattern, s) is not None
re_match(src, s) == MatchFrom(CompileFrom(src, 1), 1, s, 1)

\* any(re.match(pattern.replace('\n\s*', ''), line.strip()) ...): the text
\* replaced is a newline character followed by \s*
is_new_clause(line) ==
    \E p \in DOMAIN clause_patterns :
        re_match(replace(clause_patterns[p], "\n\\s*", ""), strip(line))

ContractLine(st, line) ==
    LET extended == st.current_chunk \o line \o "\n"
    IN  IF is_new_clause(line) /\ st.current_chunk # "" /\ Len(st.current_chunk) > 100
        THEN [chunks |-> Append(st.chunks, Chunk(strip(st.current_chunk), "contract_clause")),
              current_chunk |-> line \o "\n"]
        ELSE IF 2 * Len(extended) > base_chunk_size * 3
        THEN [chunks |-> Append(st.chunks, Chunk(strip(extended), "contract_clause")),
              current_chunk |-> ""]
        ELSE [st EXCEPT !.current_chunk = extended]

RECURSIVE ContractLines(_, _, _)
ContractLines(st, lines, i) ==
    IF i > Len(lines) THEN st ELSE ContractLines(ContractLine(st, lines[i]), lines, i + 1)

_chunk_contract_content(text) ==
    LET st == ContractLines([chunks |-> <<>>, current_chunk |-> ""], split(text, "\n"), 1)
    IN  IF strip(st.current_chunk) # ""
        THEN Append(st.chunks, Chunk(strip(st.current_chunk), "contract_clause"))
        ELSE st.chunks

\* ---- _chunk_by_paragraphs ----
\* [p.strip() for p in content.split('\n\n') if p.strip()]
Paragraphs(text) ==
    LET parts == split(text, "\n\n")
        stripped == [i \in DOMAIN parts |-> strip(parts[i])]
    IN  SelectSeq(stripped, LAMBDA q : q # "")

\* current_chunk[-self.chunk_overlap:] if len(current_chunk) > self.chunk_overlap else ""
OverlapText(current_chunk) ==
    IF Len(current_chunk) > chunk_overlap
    THEN SubSeq(current_chunk, Len(current_chunk) - chunk_overlap + 1, Len(current_chunk))
    ELSE ""

\* mutant of Paragraph: the chunk started after a cut holds the overlap only
ParagraphForgotten(st, paragraph) ==
    IF Len(st.current_chunk) + Len(paragraph) > base_chunk_size /\ st.current_chunk # ""
    THEN [chunks |-> Append(st.chunks, Chunk(strip(st.current_chunk), "paragraph_section")),
          current_chunk |-> OverlapText(st.current_chunk) \o "\n\n",
          overlap_texts |-> Append(st.overlap_texts, OverlapText(st.current_chunk))]
    ELSE [st EXCEPT !.current_chunk = st.current_chunk \o paragraph \o "\n\n"]

\* one paragraph of the loop; overlap_texts keeps the overlap_text of every
\* chunk started
Paragraph(st, paragraph) ==
    IF Len(st.current_chunk) + Len(paragraph) > base_chunk_size /\ st.current_chunk # ""
    THEN [chunks |-> Append(st.chunks, Chunk(strip(st.current_chunk), "paragraph_section")),
          current_chunk |-> OverlapText(st.current_chunk) \o paragraph \o "\n\n",
          overlap_texts |-> Append(st.overlap_texts, OverlapText(st.current_chunk))]
    ELSE [st EXCEPT !.current_chunk = st.current_chunk \o paragraph \o "\n\n"]

RECURSIVE ParagraphsFrom(_, _, _)
ParagraphsFrom(st, paragraphs, i) ==
    IF i > Len(paragraphs) THEN st
    ELSE ParagraphsFrom(Paragraph(st, paragraphs[i]), paragraphs, i + 1)

ParagraphLoop(text) ==
    ParagraphsFrom([chunks |-> <<>>, current_chunk |-> "", overlap_texts |-> <<>>],
                   Paragraphs(text), 1)

_chunk_by_paragraphs(text) ==
    LET st == ParagraphLoop(text)
    IN  IF strip(st.current_chunk) # ""
        THEN Append(st.chunks, Chunk(strip(st.current_chunk), "paragraph_section"))
        ELSE st.chunks

\* the strategy dynamic_chunking takes
Strategy(text, doc_type) ==
    IF doc_type = "csv" THEN "tabular"
    ELSE IF _is_resume_content(text) THEN "resume"
    ELSE IF _is_contract_content(text) THEN "contract"
    ELSE "generic"

\* the chunks of the strategy, before dynamic_chunking adds their metadata
StrategyChunks(text, doc_type) ==
    IF Strategy(text, doc_type) = "tabular" THEN _chunk_csv_content(text)
    ELSE IF Strategy(text, doc_type) = "resume" THEN _chunk_resume_content(text)
    ELSE IF Strategy(text, doc_type) = "contract" THEN _chunk_contract_content(text)
    ELSE _chunk_by_paragraphs(text)

(***************************************************************************)
(* dynamic_chunking applied to a bounded set of texts                      *)
(***************************************************************************)
RECURSIVE Repeated(_, _)
\* s * n
Repeated(s, n) ==
    IF n = 0 THEN ""
    ELSE IF n = 1 THEN s
    ELSE Repeated(s, n \div 2) \o Repeated(s, n - n \div 2)

\* a line of 510 characters, near the chunk size
LongLine == Repeated("data ", 102)

\* how a text starts: nothing, the head of a resume, the head of a contract
Preambles ==
    {"", "Summary\nJane Doe\nExperience and Education\n",
     "Agreement\nTerms and Conditions\n"}

\* the lines that follow: a clause, a long line, a line with blanks around
\* it, an empty line
BodyLines == {"2. Each party shall comply", LongLine, "  note  ", ""}

Texts ==
    {p \o Join("\n", b) :
        p \in Preambles, b \in UNION {[1..n -> BodyLines] : n \in 0..MaxParts}}

DocTypes == {"csv", "txt"}

InitChunk ==
    /\ content \in Texts
    /\ chunked = NoChunking
    /\ CacheIdle
    /\ TextIdle
    /\ EngineIdle
    /\ DocsIdle
    /\ AppIdle
    /\ DiscoveryIdle
    /\ StatsIdle
    /\ HistoryIdle
    /\ SqlIdle
    /\ HandlerIdle

\* chunks = self.dynamic_chunking(content, doc_type)
ChunkContent(doc_type) ==
    /\ chunked' = [done |-> TRUE, doc_type |-> doc_type,
                   chunks |-> dynamic_chunking(StrategyChunks(content, doc_type), doc_type)]
    /\ UNCHANGED content

NextChunk ==
    /\ \E doc_type \in DocTypes : ChunkContent(doc_type)
    /\ UNCHANGED <<cacheVars, textVars, engineVars, docsVars, appVars, discoveryVars,
                   statVars, historyVars, sqlVars, handlerVars>>

SpecChunk == InitChunk /\ [][NextChunk]_vars

\* dynamic_chunking has returned the chunks of content
Chunked == chunked.done

RECURSIVE Squash(_)
\* s without its whitespace
Squash(s) ==
    IF Len(s) <= 1 THEN (IF CharIn(s, WhitespaceChars) THEN "" ELSE s)
    ELSE Squash(SubSeq(s, 1, Len(s) \div 2)) \o Squash(SubSeq(s, Len(s) \div 2 + 1, Len(s)))

\* the overlap_text chunk k was started with: the generic strategy carries
\* one into every chunk after the first
OverlapInto(k) ==
    IF Strategy(content, chunked.doc_type) = "generic" /\ k > 1
    THEN ParagraphLoop(content).overlap_texts[k - 1]
    ELSE ""

\* the overlap region of chunk k: what the trimmed chunk keeps of its overlap
OverlapRegion(k) == lstrip(OverlapInto(k))

\* chunk k without its overlap region
WithoutOverlap(k) ==
    LET t == chunked.chunks[k].text
    IN  IF startswith(t, OverlapRegion(k))
        THEN SubSeq(t, Len(OverlapRegion(k)) + 1, Len(t))
        ELSE t

RECURSIVE ConcatenatedFrom(_)
\* the chunks k.. without their overlap regions, concatenated
ConcatenatedFrom(k) ==
    IF k > Len(chunked.chunks) THEN ""
    ELSE WithoutOverlap(k) \o ConcatenatedFrom(k + 1)

RECURSIVE AppearInOrder(_, _, _)
\* the units i.. appear in the chunks k.., in the order of the units
AppearInOrder(units, i, k) ==
    IF i > Len(units) THEN TRUE
    ELSE \E n \in k..Len(chunked.chunks) :
            /\ Contains(units[i], chunked.chunks[n].text)
            /\ AppearInOrder(units, i + 1, n)

\* the lines of content, of the generic strategy the paragraphs
InputUnits ==
    IF Strategy(content, chunked.doc_type) = "generic"
    THEN split(content, "\n\n")
    ELSE split(content, "\n")

\* the same, trimmed, without the blank ones
TrimmedUnits ==
    SelectSeq([i \in DOMAIN InputUnits |-> strip(InputUnits[i])], LAMBDA u : u # "")

\* C20 (as the spec states it): for every text and each strategy, every
\* line or paragraph of the text appears in the chunks in input order, and
\* the chunks without their overlap regions, concatenated, are the text.
C20_ChunksReconstructText ==
    Chunked =>
        /\ AppearInOrder(InputUnits, 1, 1)
        /\ ConcatenatedFrom(1) = content

\* C20 (amended): for every text and each strategy, every non-blank line or
\* paragraph of the text appears, trimmed, in the chunks in input order;
\* every chunk starts with its overlap region, which is at most chunk_overlap
\* characters; and the chunks without their overlap regions, concatenated,
\* are the text up to whitespace.
C20_ChunksKeepContent ==
    Chunked =>
        /\ AppearInOrder(TrimmedUnits, 1, 1)
        /\ \A k \in DOMAIN chunked.chunks :
              /\ startswith(chunked.chunks[k].text, OverlapRegion(k))
              /\ Len(OverlapInto(k)) <= chunk_overlap
        /\ Squash(ConcatenatedFrom(1)) = Squash(content)

\* a text cut into several generic chunks with an overlap carried over, whose
\* chunks do not give back the whitespace of the text
C20_Witness ==
    /\ Chunked
    /\ Strategy(content, chunked.doc_type) = "generic"
    /\ Len(chunked.chunks) >= 2
    /\ OverlapRegion(2) # ""
    /\ ConcatenatedFrom(1) # content

(***************************************************************************)
(* QueryCache                                                              *)
(***************************************************************************)
Keys == 1..NumKeys
Values == {"v" \o ToString(i) : i \in 1..NumValues}

default_ttl == 300

\* the ttl arguments of set(): None selects default_ttl
TTLs == {None, "-1", "0", "1"}

TtlValue(t) == CASE t = "-1" -> -1
                 [] t = "0" -> 0
                 [] t = "1" -> 1
                 [] OTHER -> default_ttl

\* ---- OrderedDict operations ----
KeysOf(c) == {c[i].key : i \in DOMAIN c}

IndexOf(c, k) == CHOOSE i \in DOMAIN c : c[i].key = k

RemoveAt(s, i) == SubSeq(s, 1, i - 1) \o SubSeq(s, i + 1, Len(s))

\* OrderedDict.pop(key), key present
pop(c, k) == RemoveAt(c, IndexOf(c, k))

\* OrderedDict.move_to_end(key), key present
move_to_end(c, k) == Append(RemoveAt(c, IndexOf(c, k)), c[IndexOf(c, k)])

\* OrderedDict.__setitem__: a present key keeps its position, a new key goes last
setitem(c, k, e) == IF k \in KeysOf(c)
                    THEN [c EXCEPT ![IndexOf(c, k)] = e]
                    ELSE Append(c, e)

\* next(iter(self.cache)), cache not empty
oldest_key_last(c) == c[Len(c)].key

oldest_key(c) == c[1].key

\* the expiry test of get() and cleanup_expired()
IsExpiredNever(t, e) == FALSE

IsExpired(t, e) == t > e.expires_at

\* what a call returned: value is the returned value, entry the item of the
\* dict the call looked up (get) or evicted (set), at the time of the call
NoEntry == [key |-> 0, value |-> None, expires_at |-> 0, created_at |-> 0]

Ret(op, k, v, e) == [op |-> op, key |-> k, value |-> v, entry |-> e]

\* ---- history of uses (not program state) ----
Without(s, k) == SelectSeq(s, LAMBDA x : x # k)

Touch(s, k) == Append(Without(s, k), k)

\* the history keeps the keys that are still in the dict c
Present(s, c) == SelectSeq(s, LAMBDA x : x \in KeysOf(c))

InitCache ==
    /\ max_size \in 1..MaxCapacity
    /\ cache = <<>>
    /\ hits = 0
    /\ misses = 0
    /\ now = 0
    /\ ret = Ret("init", 0, None, NoEntry)
    /\ lastUse = <<>>
    /\ TextIdle
    /\ EngineIdle
    /\ DocsIdle
    /\ AppIdle
    /\ DiscoveryIdle
    /\ ChunkIdle
    /\ StatsIdle
    /\ HistoryIdle
    /\ SqlIdle
    /\ HandlerIdle

\* time passes between two calls
Tick ==
    /\ now < MaxTime
    /\ now' = now + 1
    /\ UNCHANGED <<max_size, cache, hits, misses, ret, lastUse>>

GetMiss(k) ==
    /\ k \notin KeysOf(cache)
    /\ misses' = misses + 1
    /\ ret' = Ret("get", k, None, NoEntry)
    /\ UNCHANGED <<cache, hits, lastUse>>

\* mutant of GetExpired: the expired entry is removed without counting a miss
GetExpiredUncounted(k) ==
    /\ k \in KeysOf(cache)
    /\ IsExpired(now, cache[IndexOf(cache, k)])
    /\ cache' = pop(cache, k)
    /\ ret' = Ret("get", k, None, cache[IndexOf(cache, k)])
    /\ lastUse' = Present(lastUse, cache')
    /\ UNCHANGED <<hits, misses>>

\* mutant of GetExpired: the read of an expired entry purges every expired entry
GetExpiredSweeping(k) ==
    /\ k \in KeysOf(cache)
    /\ IsExpired(now, cache[IndexOf(cache, k)])
    /\ cache' = SelectSeq(cache, LAMBDA e : ~IsExpired(now, e))
    /\ misses' = misses + 1
    /\ ret' = Ret("get", k, None, cache[IndexOf(cache, k)])
    /\ lastUse' = Present(lastUse, cache')
    /\ UNCHANGED hits

GetExpired(k) ==
    /\ k \in KeysOf(cache)
    /\ IsExpired(now, cache[IndexOf(cache, k)])
    /\ cache' = pop(cache, k)
    /\ misses' = misses + 1
    /\ ret' = Ret("get", k, None, cache[IndexOf(cache, k)])
    /\ lastUse' = Present(lastUse, cache')
    /\ UNCHANGED hits

GetHit(k) ==
    /\ k \in KeysOf(cache)
    /\ ~IsExpired(now, cache[IndexOf(cache, k)])
    /\ cache' = move_to_end(cache, k)
    /\ hits' = hits + 1
    /\ ret' = Ret("get", k, cache[IndexOf(cache, k)].value, cache[IndexOf(cache, k)])
    /\ lastUse' = Present(Touch(lastUse, k), cache')
    /\ UNCHANGED misses

\* QueryCache.get
Get(k) ==
    /\ hits + misses < MaxGets
    /\ \/ GetMiss(k)
       \/ GetExpired(k)
       \/ GetHit(k)
    /\ UNCHANGED <<max_size, now>>

\* mutant of Evicted: the oldest key is popped only above capacity
EvictedAboveCapacity(c, k) == IF Len(c) > max_size /\ k \notin KeysOf(c)
                              THEN pop(c, oldest_key(c))
                              ELSE c

\* the dict after the eviction step of set()
Evicted(c, k) == IF Len(c) >= max_size /\ k \notin KeysOf(c)
                 THEN pop(c, oldest_key(c))
                 ELSE c

NewEntry(k, v, t) == [key |-> k, value |-> v,
                      expires_at |-> now + TtlValue(t), created_at |-> now]

\* QueryCache.set
Set(k, v, t) ==
    /\ cache' = move_to_end(setitem(Evicted(cache, k), k, NewEntry(k, v, t)), k)
    /\ ret' = Ret("set", k, None,
                   IF Evicted(cache, k) = cache THEN NoEntry
                   ELSE cache[CHOOSE i \in DOMAIN cache :
                                  cache[i].key \notin KeysOf(Evicted(cache, k))])
    /\ lastUse' = Present(Touch(lastUse, k), cache')
    /\ UNCHANGED <<max_size, hits, misses, now>>

\* QueryCache.delete
Delete(k) ==
    /\ IF k \in KeysOf(cache)
       THEN /\ cache' = pop(cache, k)
            /\ ret' = Ret("delete", k, "True", NoEntry)
       ELSE /\ cache' = cache
            /\ ret' = Ret("delete", k, "False", NoEntry)
    /\ lastUse' = Present(lastUse, cache')
    /\ UNCHANGED <<max_size, hits, misses, now>>

\* QueryCache.clear
Clear ==
    /\ cache' = <<>>
    /\ hits' = 0
    /\ misses' = 0
    /\ ret' = Ret("clear", 0, None, NoEntry)
    /\ lastUse' = Present(lastUse, cache')
    /\ UNCHANGED <<max_size, now>>

\* QueryCache.cleanup_expired
CleanupExpired ==
    /\ cache' = SelectSeq(cache, LAMBDA e : ~IsExpired(now, e))
    /\ ret' = Ret("cleanup_expired", 0,
                   ToString(Len(SelectSeq(cache, LAMBDA e : IsExpired(now, e)))), NoEntry)
    /\ lastUse' = Present(lastUse, cache')
    /\ UNCHANGED <<max_size, hits, misses, now>>

\* QueryCache.hit_rate
hit_rate ==
    IF hits + misses = 0 THEN Ratio(0, 1) ELSE Ratio(hits, hits + misses)

\* QueryCache.get_stats
GetStats ==
    /\ stats' = [size |-> Len(cache), max_size |-> max_size,
                 hits |-> hits, misses |-> misses,
                 hit_rate |-> hit_rate,
                 utilization |-> IF max_size > 0 THEN Ratio(Len(cache), max_size)
                                 ELSE Ratio(0, 1)]
    /\ ret' = Ret("get_stats", 0, None, NoEntry)
    /\ UNCHANGED <<max_size, cache, hits, misses, now, lastUse, gets>>

\* the history of the gets after a call of get
GetCounted ==
    gets' = [calls |-> gets.calls + 1,
             live |-> gets.live + (IF ret'.value # None THEN 1 ELSE 0)]

NextCache ==
    /\ \/ Tick /\ UNCHANGED gets /\ stats' = NoStats
       \/ (\E k \in Keys : Get(k)) /\ GetCounted /\ stats' = NoStats
       \/ (\E k \in Keys, v \in Values, t \in TTLs : Set(k, v, t))
             /\ UNCHANGED gets /\ stats' = NoStats
       \/ (\E k \in Keys : Delete(k)) /\ UNCHANGED gets /\ stats' = NoStats
       \/ Clear /\ gets' = NoGets /\ stats' = NoStats
       \/ CleanupExpired /\ UNCHANGED gets /\ stats' = NoStats
       \/ GetStats
    /\ UNCHANGED <<textVars, engineVars, docsVars, appVars, discoveryVars, chunkVars,
                   historyVars, sqlVars, handlerVars>>

SpecCache == InitCache /\ [][NextCache]_vars

(***************************************************************************)
(* QueryCache: the query history                                           *)
(***************************************************************************)
history_limit == 100

\* the query text of the n-th call of add_query_to_history
HistoryQuery(n) == "q" \o ToString(n)

\* the result of the n-th call, as the keys it has: every second result is
\* an empty dict
HistoryResult(n) ==
    IF n % 2 = 0 THEN [keys |-> {}, processing_time |-> 0, cached |-> FALSE,
                       query_type |-> "None"]
    ELSE [keys |-> {"processing_time", "cached", "query_type"},
          processing_time |-> 2, cached |-> TRUE, query_type |-> "sql"]

\* the dict add_query_to_history inserts: result.get(key, default)
HistoryEntry(q, res) ==
    [query |-> q,
     timestamp |-> now,
     processing_time |-> IF "processing_time" \in res.keys THEN res.processing_time ELSE 0,
     cached |-> IF "cached" \in res.keys THEN res.cached ELSE FALSE,
     query_type |-> IF "query_type" \in res.keys THEN res.query_type ELSE "unknown"]

\* s[:n]
FirstOf(s, n) == SubSeq(s, 1, Min(n, Len(s)))

\* mutant of add_query_to_history: the slice keeps one entry more
add_query_to_history_keeping_one_more(history, entry) ==
    FirstOf(<<entry>> \o history, history_limit + 1)

\* recent_queries.insert(0, entry); recent_queries = recent_queries[:100]
add_query_to_history(history, entry) ==
    FirstOf(<<entry>> \o history, history_limit)

\* QueryCache.get_recent_queries
get_recent_queries(limit) == FirstOf(recent_queries, limit)

\* QueryCache.add_query_to_history(query, result)
AddQueryToHistory ==
    /\ added < MaxAdds
    /\ recent_queries' =
          add_query_to_history(recent_queries,
                               HistoryEntry(HistoryQuery(added + 1), HistoryResult(added + 1)))
    /\ added' = added + 1
    /\ UNCHANGED <<cacheVars, statVars>>

\* the keys and ttls of the cache calls made beside the history
HistoryKeys == {1}
HistoryTTLs == {None, "-1"}

NextHistory ==
    /\ \/ AddQueryToHistory
       \/ (\E k \in HistoryKeys : Get(k))
             /\ GetCounted /\ stats' = NoStats /\ UNCHANGED historyVars
       \/ (\E k \in HistoryKeys, v \in Values, t \in HistoryTTLs : Set(k, v, t))
             /\ UNCHANGED gets /\ stats' = NoStats /\ UNCHANGED historyVars
       \/ (\E k \in HistoryKeys : Delete(k))
             /\ UNCHANGED gets /\ stats' = NoStats /\ UNCHANGED historyVars
       \/ Clear /\ gets' = NoGets /\ stats' = NoStats /\ UNCHANGED historyVars
       \/ CleanupExpired /\ UNCHANGED gets /\ stats' = NoStats /\ UNCHANGED historyVars
    /\ UNCHANGED <<textVars, engineVars, docsVars, appVars, discoveryVars, chunkVars,
                   sqlVars, handlerVars>>

SpecHistory == InitCache /\ [][NextHistory]_vars

(***************************************************************************)
(* Claims about QueryCache                                                 *)
(***************************************************************************)
\* the step is a call of get / of set (Tick is the only other step that
\* leaves ret.op unchanged, and it changes now)
IsGetStep == ret'.op = "get" /\ hits' + misses' # hits + misses

IsSetStep == ret'.op = "set" /\ now' = now

EntryOf(c, k) == c[IndexOf(c, k)]

\* C1 (as stated): a key stored by set with ttl <= 0, ttl = 0 with the clock
\* not advanced included, is never returned by a later get: every value a get
\* returns comes from an entry stored with ttl > 0.
C1_ElapsedTtlNeverReturned ==
    (ret.op = "get" /\ ret.value # None)
        => ret.entry.expires_at > ret.entry.created_at

\* C1 (amended): get never returns an entry whose expiry time is before the
\* time of the get: an entry stored with ttl < 0 is never returned, and an
\* entry stored with ttl = 0 is returned only while the clock still shows the
\* time of the set (expiry is the strict test now > expires_at).
C1_ExpiredNeverReturned ==
    [][(IsGetStep /\ ret'.value # None) =>
          /\ now <= ret'.entry.expires_at
          /\ ret'.entry.expires_at >= ret'.entry.created_at
          /\ (ret'.entry.expires_at = ret'.entry.created_at
                 => now = ret'.entry.created_at)]_vars

\* a get looked up an entry stored with ttl <= 0 and returned None
C1_Witness ==
    /\ ret.op = "get"
    /\ ret.value = None
    /\ ret.entry.key # 0
    /\ ret.entry.expires_at <= ret.entry.created_at

\* C2: a set of a key that is not present into a full cache removes exactly
\* the entry whose last use (insert, refresh by set, live get hit) is the
\* oldest and keeps every other entry; a set of a present key removes none.
C2_LruEviction ==
    [][IsSetStep =>
        LET k == ret'.key IN
            /\ (Len(cache) = max_size /\ k \notin KeysOf(cache)) =>
                  /\ KeysOf(cache') = (KeysOf(cache) \ {Head(lastUse)}) \cup {k}
                  /\ \A j \in KeysOf(cache) \ {Head(lastUse)} :
                        EntryOf(cache', j) = EntryOf(cache, j)
                  /\ Len(cache') = Len(cache)
            /\ k \in KeysOf(cache) =>
                  /\ KeysOf(cache') = KeysOf(cache)
                  /\ \A j \in KeysOf(cache) \ {k} :
                        EntryOf(cache', j) = EntryOf(cache, j)
                  /\ Len(cache') = Len(cache)]_vars

\* a set evicted an entry that was stored after an entry it kept: the
\* eviction followed the order of use, not the order of insertion
C2_Witness ==
    /\ ret.op = "set"
    /\ ret.entry.key # 0
    /\ Len(cache) = max_size
    /\ Len(cache) >= 2
    /\ cache[1].created_at < ret.entry.created_at

\* the step is a call of the operation op (Tick changes now, every other
\* call sets ret.op)
IsCall(op) == ret'.op = op /\ now' = now

\* C21: at every point hits + misses is the number of gets since the last
\* clear (or since creation) and hits the number of those that returned a
\* value; a get of an absent key and a get of an expired entry each count one
\* miss; clear resets both counters; set, delete and cleanup_expired leave
\* them unchanged; the hit_rate get_stats returns is hits / (hits + misses),
\* and 0 when there was no access.
C21_Statistics ==
    /\ [](/\ hits + misses = gets.calls
          /\ hits = gets.live
          /\ (ret.op = "get_stats" /\ stats # NoStats) =>
                /\ stats.hits = hits /\ stats.misses = misses
                /\ stats.hit_rate.den > 0
                /\ stats.hit_rate.num * (hits + misses) = hits * stats.hit_rate.den
                /\ (hits + misses = 0 => stats.hit_rate.num = 0))
    /\ [][/\ (IsCall("get") /\ ret'.value = None) =>
                (misses' = misses + 1 /\ hits' = hits)
          /\ (IsCall("get") /\ ret'.value # None) =>
                (hits' = hits + 1 /\ misses' = misses)
          /\ IsCall("clear") => (hits' = 0 /\ misses' = 0)
          /\ (IsCall("set") \/ IsCall("delete") \/ IsCall("cleanup_expired")) =>
                UNCHANGED <<hits, misses>>]_vars

\* two gets since creation: one returned a value, the other found its
\* entry expired and counted a miss
C21_Witness ==
    /\ ret.op = "get"
    /\ ret.value = None
    /\ ret.entry.key # 0
    /\ hits = 1
    /\ misses = 1
    /\ gets = [calls |-> 2, live |-> 1]

\* C22: the history holds the latest min(100, number of calls of
\* add_query_to_history) queries added, the latest first, so that on overflow
\* the oldest is the one dropped; get, set, delete, clear, expiry and
\* cleanup_expired leave it unchanged.
C22_HistoryBounded ==
    /\ [](/\ Len(recent_queries) = Min(history_limit, added)
          /\ \A i \in DOMAIN recent_queries :
                recent_queries[i].query = HistoryQuery(added - i + 1))
    /\ [][added' = added => UNCHANGED recent_queries]_vars

\* more than 100 queries were added, the first ones are gone, and the cache
\* was used and cleared beside
C22_Witness ==
    /\ added > history_limit
    /\ Len(recent_queries) = history_limit
    /\ recent_queries[history_limit].query = HistoryQuery(added - history_limit + 1)
    /\ ret.op = "clear"

\* the keys of c, in the order of c
KeyOrder(c) == [i \in DOMAIN c |-> c[i].key]

\* the keys of the entries of c that are expired at time t
ExpiredKeys(c, t) == {c[i].key : i \in {j \in DOMAIN c : t > c[j].expires_at}}

\* C23: a get of a present key with now > expires_at removes that entry and
\* no other and returns None; no other get and no passing of time removes an
\* expired entry, and a set into a full cache evicts the oldest entry whether
\* or not expired entries are there; cleanup_expired removes all and only the
\* entries expired at the call, returns their number and keeps the order of
\* the others.
C23_LazyExpiry ==
    [][/\ IsCall("get") =>
            /\ (ret'.key \in ExpiredKeys(cache, now)) =>
                  /\ ret'.value = None
                  /\ KeyOrder(cache') = Without(KeyOrder(cache), ret'.key)
            /\ \A j \in KeysOf(cache) \ {ret'.key} :
                  j \in KeysOf(cache') /\ EntryOf(cache', j) = EntryOf(cache, j)
       /\ now' # now => cache' = cache
       /\ (IsCall("set") /\ Len(cache) >= max_size /\ ret'.key \notin KeysOf(cache)) =>
            KeysOf(cache') = (KeysOf(cache) \ {cache[1].key}) \cup {ret'.key}
       /\ IsCall("cleanup_expired") =>
            /\ KeysOf(cache') = KeysOf(cache) \ ExpiredKeys(cache, now)
            /\ ret'.value = ToString(Cardinality(ExpiredKeys(cache, now)))
            /\ KeyOrder(cache') = SelectSeq(KeyOrder(cache), LAMBDA j : j \in KeysOf(cache'))
            /\ \A j \in KeysOf(cache') : EntryOf(cache', j) = EntryOf(cache, j)]_vars

\* a get found its entry expired and removed it, and another expired entry
\* is still in the cache
C23_Witness ==
    /\ ret.op = "get"
    /\ ret.value = None
    /\ ret.entry.key # 0
    /\ now > ret.entry.expires_at
    /\ ExpiredKeys(cache, now) # {}

\* C24: in one batch call each distinct text is given to the model at most
\* once and none of them has a vector already, and after a call in which the
\* model did not raise every chunk of every stored document has its text in
\* the embedding index.
C24_EmbedPoolsDistinctTexts ==
    batch # NoBatchCall =>
        /\ \A i, j \in DOMAIN batch.texts_to_embed :
              batch.texts_to_embed[i] = batch.texts_to_embed[j] => i = j
        /\ (batch.total_chunks > 0 /\ ~batch.raised) =>
              \A d \in DOMAIN document_store : \A i \in DOMAIN document_store[d].chunks :
                  document_store[d].chunks[i].text \in embeddings_cache

(***************************************************************************)
(* SQL synthesis and optimisation: _generate_sql_query and                 *)
(* optimize_sql_query called on their own                                  *)
(***************************************************************************)
SqlQueries ==
    {"count the average salary", "show average pay", "list the top 3 salaries",
     "top 3 highest salaries", "highest paid staff", "top  12 names", "top earners",
     "employees hired this year", "How many employees do we have?",
     "avg salary by department", "Top 5 highest paid employees", "find people"}

TableNames(sch) == {sch.tables[i].name : i \in DOMAIN sch.tables}

\* the lists of at most two tables that a mapping can suggest
SuggestedTables(sch) ==
    {<<>>} \cup {<<t>> : t \in TableNames(sch)}
           \cup {<<t, u>> : t, u \in TableNames(sch)}

Statements ==
    {"SELECT name, salary FROM employees",
     "SELECT name FROM accounts",
     "SELECT id, summary FROM tickets",
     "SELECT name FROM admins WHERE id = 1",
     "SELECT * FROM rate_limits",
     "SELECT name FROM employees LIMIT 10",
     "select name from employees",
     "select name from employees limit 3",
     "SELECT COUNT(*) as count FROM employees",
     "SELECT department, MAX(salary) FROM employees GROUP BY department",
     "  SELECT name FROM employees ",
     "DELETE FROM employees",
     ""}

InitSql ==
    /\ schema \in Schemas
    /\ document_store = <<>>
    /\ embeddings_cache = {}
    /\ result = NoResult
    /\ calls = <<>>
    /\ env = NoEnv
    /\ SqlIdle
    /\ HandlerIdle
    /\ TextIdle
    /\ CacheIdle
    /\ DocsIdle
    /\ AppIdle
    /\ DiscoveryIdle
    /\ ChunkIdle
    /\ StatsIdle
    /\ HistoryIdle

\* _generate_sql_query over the inputs of the model
Synthesised ==
    [sch \in Schemas |->
        [q \in SqlQueries |->
            [tables \in SuggestedTables(sch) |->
                LET schema_mapping == [suggested_tables |-> tables]
                    raises == GenerateRaises(sch, q, schema_mapping)
                IN  [raised |-> raises,
                     sql_query |-> IF raises THEN None
                                   ELSE _generate_sql_query(sch, q, schema_mapping)]]]]

\* QueryEngine._generate_sql_query(q, {'suggested_tables': tables})
GenerateSql(q, tables) ==
    /\ generation' = [called |-> TRUE, query |-> q, suggested_tables |-> tables,
                      raised |-> Synthesised[schema][q][tables].raised,
                      sql_query |-> Synthesised[schema][q][tables].sql_query]
    /\ UNCHANGED optimization

\* optimize_sql_query over the statements of the model
Optimised == [sql \in Statements |-> optimize_sql_query(sql)]

\* QueryEngine.optimize_sql_query(sql)
OptimizeSql(sql) ==
    /\ optimization' = [called |-> TRUE, again |-> FALSE, sql |-> sql,
                        optimized |-> IF sql \in Statements THEN Optimised[sql]
                                      ELSE optimize_sql_query(sql)]
    /\ UNCHANGED generation

\* optimize_sql_query on the statement the last call of it returned
OptimizeAgain ==
    /\ optimization.called
    /\ optimization' = [called |-> TRUE, again |-> TRUE, sql |-> optimization.optimized,
                        optimized |-> optimize_sql_query(optimization.optimized)]
    /\ UNCHANGED generation

NextSql ==
    /\ \/ \E q \in SqlQueries, tables \in SuggestedTables(schema) : GenerateSql(q, tables)
       \/ \E sql \in Statements \cup ({generation.sql_query} \ {None}) : OptimizeSql(sql)
       \/ OptimizeAgain
    /\ UNCHANGED <<cacheVars, textVars, engineVars, docsVars, appVars, discoveryVars,
                   chunkVars, statVars, historyVars, handlerVars>>

SpecSql == InitSql /\ [][NextSql]_vars

(***************************************************************************)
(* Claims about SQL synthesis and optimisation                             *)
(***************************************************************************)
\* the strategy the cues of a text select, in the priority of the claim
CuedStrategy(q) ==
    IF Contains("count", q) \/ Contains("how many", q) THEN "count"
    ELSE IF Contains("average", q) \/ Contains("avg", q) THEN "average"
    ELSE IF Contains("list", q) \/ Contains("show", q) \/ Contains("find", q) THEN "select"
    ELSE IF Contains("highest", q) \/ Contains("top", q) THEN "top"
    ELSE "select"

\* what the strategy named makes of the text and the tables
StatementOf(strategy, sch, q, tables) ==
    IF strategy = "count" THEN _generate_count_query(sch, q, tables)
    ELSE IF strategy = "average" THEN _generate_average_query(sch, q, tables)
    ELSE IF strategy = "top" THEN _generate_top_query(sch, q, tables)
    ELSE _generate_select_query(sch, q, tables)

\* the statement ends with a row cap of n rows
CappedAt(sql, n) == endswith(sql, " LIMIT " \o ToString(n))

\* C25: _generate_sql_query returns the statement of exactly one strategy,
\* the first in the order count, average, list/show/find, top/highest whose
\* cue is in the lowered text, the plain select without a cue; the statement
\* is the one made for the first suggested table alone; and the statement of
\* the select strategy ends with a cap of 50 rows, that of the top strategy
\* with a cap of the integer after "top", of 5 rows without one.
C25_StrategyPriorityAndCap ==
    (generation.called /\ generation.suggested_tables # <<>> /\ ~generation.raised) =>
        LET q == lower(generation.query)
            tables == generation.suggested_tables
            sql == generation.sql_query
            strategy == CuedStrategy(q)
        IN  /\ sql = StatementOf(strategy, schema, q, tables)
            /\ strategy = "count" => startswith(sql, "SELECT COUNT(*)")
            /\ strategy = "average" => Contains("AVG(", sql) \/ Contains("COUNT(*)", sql)
            /\ strategy \in {"select", "top"} =>
                    /\ ~Contains("AVG(", sql) /\ ~Contains("COUNT(*)", sql)
                    /\ Contains(" ORDER BY ", sql) = (strategy = "top")
            /\ sql = StatementOf(strategy, schema, q, <<tables[1]>>)
            /\ Contains(" FROM " \o tables[1], sql)
            /\ \A i \in 2..Len(tables) :
                    tables[i] # tables[1] => ~Contains(tables[i], sql)
            /\ strategy = "select" => CappedAt(sql, 50)
            /\ strategy = "top" =>
                    /\ CappedAt(sql, TopLimit(q))
                    /\ ~re_search(top_pattern, q) => CappedAt(sql, 5)
                    /\ q = "top 3 highest salaries" => CappedAt(sql, 3)
                    /\ q = "top  12 names" => CappedAt(sql, 12)

\* "top 3 highest salaries" was synthesised with two suggested tables: the
\* statement reads the first of them and is capped at 3 rows
C25_Witness ==
    /\ generation.called
    /\ generation.query = "top 3 highest salaries"
    /\ generation.suggested_tables = <<"staff", "departments">>
    /\ generation.sql_query = "SELECT full_name, pay_rate FROM staff ORDER BY pay_rate DESC LIMIT 3"

\* the statement has the keyword w as a word of its own, in any case
HasKeyword(w, sql) == \E i \in 1..Len(sql) : WordAt(w, upper(sql), i)

\* a select statement: its first word is SELECT
IsSelectStatement(sql) == WordAt("SELECT", upper(sql), 1)

\* the statement has a row cap: a LIMIT clause
HasRowCap(sql) == HasKeyword("LIMIT", sql)

\* the statement aggregates: it calls an aggregate function or groups
HasAggregation(sql) ==
    \/ \E f \in {"COUNT", "AVG", "SUM", "MAX", "MIN"} : HasKeyword(f, sql)
    \/ HasKeyword("GROUP", sql)

\* C26: optimize_sql_query(sql) is sql followed by the default cap of 100
\* rows exactly when sql is a select statement without a LIMIT clause and
\* without an aggregate function or a GROUP BY, and sql itself in every other
\* case; applied to its own result it returns that result, and a statement
\* with a LIMIT clause is returned as it is.
C26_OptimizeCapsExactly ==
    optimization.called =>
        LET sql == optimization.sql
            out == optimization.optimized
        IN  /\ out = IF IsSelectStatement(sql) /\ ~HasRowCap(sql) /\ ~HasAggregation(sql)
                     THEN sql \o " LIMIT 100"
                     ELSE sql
            /\ optimization.again => out = sql
            /\ HasRowCap(sql) => out = sql

(***************************************************************************)
(* Claims about the contract chunking strategy                             *)
(***************************************************************************)
\* the text without its last line
WithoutLastLine(t) ==
    LET lines == split(t, "\n")
    IN  IF Len(lines) <= 1 THEN "" ELSE SubSeq(t, 1, Len(t) - Len(lines[Len(lines)]) - 1)

\* C27: every chunk of a text chunked by the contract strategy, the last
\* one included, has at least 100 characters, and without its last line no
\* chunk is longer than 1.5 times the chunk size.
C27_ContractChunkMinimum ==
    (Chunked /\ Strategy(content, chunked.doc_type) = "contract") =>
        \A k \in DOMAIN chunked.chunks :
            /\ Len(chunked.chunks[k].text) >= 100
            /\ 2 * Len(WithoutLastLine(chunked.chunks[k].text)) <= 3 * base_chunk_size

(***************************************************************************)
(* Claims about the capacity of QueryCache                                 *)
(***************************************************************************)
\* next(iter(self.cache)) of set would raise StopIteration: the cache is at
\* capacity and has no key
EvictionRaises == Len(cache) >= max_size /\ cache = <<>>

\* C28: the cache never holds more than max_size entries, max_size being at
\* least 1; a call of set leaves the number of entries as it is or raises it
\* by one, and its eviction step always finds a key to pop.
C28_SizeBounded ==
    /\ [](max_size >= 1 /\ Len(cache) <= max_size /\ ~EvictionRaises)
    /\ [][IsSetStep => Len(cache') - Len(cache) \in {0, 1}]_vars

\* a set on a full cache of two entries evicted one and left two entries
C28_Witness ==
    /\ ret.op = "set"
    /\ ret.entry.key # 0
    /\ max_size = 2
    /\ Len(cache) = 2

(***************************************************************************)
(* The handlers of main.py together: connect_database, upload_documents    *)
(* with its background task, and process_query with the cache              *)
(***************************************************************************)
\* the query texts sent to the handler: a document and an sql one
HandlerTexts == <<"python developer", "How many employees do we have?">>

\* hash(query): equal texts have equal hashes, and the texts of the model
\* have different ones; the hash of a text is given by its position
hash(q) == CHOOSE i \in DOMAIN HandlerTexts : HandlerTexts[i] = q

\* f"query:{hash(query_request.query)}"
cache_key(q) == hash(q)

\* the databases connected to
HandlerSchemas == {sch \in Schemas : Len(sch.tables) <= 1}

\* mutant of CacheSet: a result of type error is not written to the cache
CacheSetUnlessError(c, k, value) ==
    IF value.query_type = "error" THEN c
    ELSE move_to_end(setitem(Evicted(c, k), k, NewEntry(k, value, None)), k)

\* app_state.cache.set(cache_key, result) on the dict c
CacheSet(c, k, value) == move_to_end(setitem(Evicted(c, k), k, NewEntry(k, value, None)), k)

\* the QueryResponse made of a result dict
QueryResponse(q, e, value, cache_hit, cs) ==
    [status |-> 200, query |-> q, cache_hit |-> cache_hit, engine |-> e,
     results |-> value.results, query_type |-> value.query_type,
     sources |-> value.sources, sql_query |-> value.sql_query,
     total_documents_searched |-> value.total_documents_searched, calls |-> cs]

\* process_query of main.py, whole: 400 without an engine; the value of the
\* cache under the key of the text, if get returns one; else
\* query_engine.process_query on the engine installed, and its result
\* written to the cache
HandleQuery(q, exec, encode_raises) ==
    LET k == cache_key(q)
        e == app_state.query_engine
        present == k \in KeysOf(cache)
        entry == cache[IndexOf(cache, k)]
        cached == present /\ ~IsExpired(now, entry)
        after_get == IF present THEN pop(cache, k) ELSE cache
    IN  IF e = 0
        THEN /\ response' = [NoResponse EXCEPT !.status = 400, !.query = q]
             /\ UNCHANGED <<cache, hits, misses, ret, lastUse, answered>>
        ELSE /\ hits + misses < MaxHandled
             /\ IF cached
                THEN /\ cache' = move_to_end(cache, k)
                     /\ hits' = hits + 1
                     /\ ret' = Ret("get", k, entry.value, entry)
                     /\ response' = QueryResponse(q, e, entry.value, TRUE, <<>>)
                     /\ UNCHANGED <<misses, answered>>
                ELSE \E sim \in [engines[e].embeddings_cache -> Sims] :
                     LET run == process_query(Analysis[engines[e].schema, q],
                                              engines[e].document_store,
                                              engines[e].embeddings_cache,
                                              exec, sim, encode_raises)
                     IN  /\ cache' = CacheSet(after_get, k, run.value)
                         /\ misses' = misses + 1
                         /\ ret' = Ret("set", k, None, NoEntry)
                         /\ response' = QueryResponse(q, e, run.value, FALSE, run.calls)
                         /\ answered' = {a \in answered : a.query # q}
                                \cup {[query |-> q, at |-> now, engine |-> e,
                                       result |-> run.value]}
                         /\ UNCHANGED hits
             /\ lastUse' = Present(Touch(lastUse, k), cache')

\* time passes: the default ttl
Elapse ==
    /\ now < MaxElapses * default_ttl
    /\ now' = now + default_ttl

NextHandlers ==
    /\ \/ /\ \/ \E f \in Filenames : UploadDocuments(<<f>>)
             \/ \E j \in DOMAIN tasks, extract_raises \in BOOLEAN : BeginFile(j, extract_raises)
             \/ \E j \in DOMAIN tasks : ChunkFile(j)
             \/ \E j \in DOMAIN tasks : StoreFile(j)
          /\ UNCHANGED <<max_size, cache, hits, misses, ret, lastUse, appVars, handlerVars>>
       \/ /\ \/ \E db \in HandlerSchemas, fails \in BOOLEAN : ConnectDiscover(db, fails)
             \/ ConnectInstall
          /\ UNCHANGED <<cacheVars, docsVars, document_store, embeddings_cache, handlerVars>>
       \/ /\ \E i \in DOMAIN HandlerTexts, exec \in ExecOutcomes, encode_raises \in BOOLEAN :
                HandleQuery(HandlerTexts[i], exec, encode_raises)
          /\ UNCHANGED <<max_size, now, docsVars, document_store, embeddings_cache, appVars>>
       \/ /\ Elapse
          /\ UNCHANGED <<max_size, cache, hits, misses, ret, lastUse, docsVars,
                         document_store, embeddings_cache, appVars, handlerVars>>
    /\ UNCHANGED <<textVars, schema, result, calls, env, discoveryVars, chunkVars,
                   statVars, historyVars, sqlVars>>

SpecHandlers == InitCache /\ [][NextHandlers]_vars

(***************************************************************************)
(* Claims about the handlers                                               *)
(***************************************************************************)
\* the step is a request of process_query answered with an engine installed
IsHandleStep == hits' + misses' # hits + misses

\* an upload job has completed with a document processed
UploadCompleted ==
    \E j \in DOMAIN ingestion_jobs :
        ingestion_jobs[j].status = "completed" /\ ingestion_jobs[j].processed_files > 0

StoredIds(store) == {store[d].id : d \in DOMAIN store}

\* C29: a document query answered by the engine after an upload job has
\* completed searches the documents uploaded: each of them is in the store
\* the engine searches, its chunks have vectors in the index the engine
\* searches, and total_documents_searched counts it; and no step, a
\* reconnect included, takes a document away from what queries search.
C29_UploadsAreSearched ==
    /\ [][(IsHandleStep /\ ~response'.cache_hit /\ response'.query_type = "document"
             /\ UploadCompleted) =>
            LET searched == engines[response'.engine]
            IN  /\ StoredIds(document_store) \subseteq StoredIds(searched.document_store)
                /\ \A d \in DOMAIN document_store : \A i \in DOMAIN document_store[d].chunks :
                      document_store[d].chunks[i].text \in searched.embeddings_cache
                /\ response'.total_documents_searched >= Len(document_store)]_vars
    /\ [][(app_state.query_engine # 0) =>
            StoredIds(engines[app_state.query_engine].document_store)
                \subseteq StoredIds(engines'[app_state'.query_engine].document_store)]_vars

\* the last answer process_query gave for the text of the request of this
\* step, if the default ttl has not elapsed since
AnsweredWithinTtl(a) ==
    /\ a \in answered
    /\ a.query = response'.query
    /\ now <= a.at + default_ttl

\* the request of this step is answered from the cache with the results,
\* type and sources of a, and the engine is not called
AnsweredFromCache(a) ==
    /\ response'.cache_hit
    /\ response'.results = a.result.results
    /\ response'.query_type = a.result.query_type
    /\ response'.sources = a.result.sources
    /\ response'.calls = <<>>

\* the result the engine returned in this step is in the cache under the key
\* of the text
ResultWritten ==
    \E i \in DOMAIN cache' :
        /\ cache'[i].key = cache_key(response'.query)
        /\ cache'[i].value.results = response'.results
        /\ cache'[i].value.query_type = response'.query_type

\* C30 (as stated): every result process_query returns is written to the
\* cache under the key of the text, and every request for a text answered
\* less than the ttl ago is answered from the cache with the same results,
\* type and sources, without a call of the engine.
C30_RepeatAnsweredFromCache ==
    /\ [][(IsHandleStep /\ ~response'.cache_hit) => ResultWritten]_vars
    /\ [][IsHandleStep => \A a \in answered : AnsweredWithinTtl(a) => AnsweredFromCache(a)]_vars

\* C30 (amended): every result process_query returns, one of type error or
\* with empty results included, is written to the cache under the key of the
\* text, and every request for a text answered less than the ttl ago whose
\* entry is still in the cache (set evicts the least recently used entry
\* when the cache is full) is answered from the cache with the same results,
\* type and sources, without a call of the engine, whatever connect or
\* upload happened in between.
C30_RepeatAnsweredWhileCached ==
    /\ [][(IsHandleStep /\ ~response'.cache_hit) => ResultWritten]_vars
    /\ [][IsHandleStep =>
            \A a \in answered :
                (AnsweredWithinTtl(a) /\ cache_key(a.query) \in KeysOf(cache))
                    => AnsweredFromCache(a)]_vars

\* a result of type error was answered from the cache after another engine
\* had been installed and a document uploaded
C30_Witness ==
    /\ response.cache_hit
    /\ response.query_type = "error"
    /\ document_store # <<>>
    /\ \E a \in answered : a.query = response.query /\ a.engine # app_state.query_engine


====
